---- MODULE Spec2Model ----
(***************************************************************************)
(* LoopBlog: the post repository (lib/posts), the edit flow (EditPost),    *)
(* the Post view and its Markdown post-processing (reading time, table of  *)
(* contents, heading anchors), modelled from the TypeScript sources.       *)
(*                                                                         *)
(* Strings the code computes on are sequences of one-character strings.    *)
(* Timestamps are integers counted in ticks; TicksPerMinute ticks make one *)
(* minute, the resolution of a datetime-local input.                       *)
(***************************************************************************)
EXTENDS Integers, Sequences, FiniteSets, TLC

VARIABLES
    rows,          \* backend table "posts": id -> <<row>>, or <<>> for no row
    nextId,        \* backend: the id the next inserted row gets
    bucket,        \* backend storage bucket "loopblogimages": the paths stored
    now,           \* the clock, in ticks
    authUser,      \* backend client: the signed-in user, <<>> when signed out
    lastAdd,       \* what the last addPost call did: threw or returned (and the image_paths
                   \* of the post returned), after an insert or not
    home,          \* Home view: <<>> when unmounted, else <<[posts, error]>>
    ep,            \* EditPost view: its useState fields, as one record
    pvPost,        \* Post view: useState post (<<>> or a normalized row)
    pvLoading,     \* Post view: useState loading
    pvErr,         \* Post view: useState err (<<>> or a message)
    pvId,          \* Post view: the route id (useParams), <<>> when unmounted
    pvReqs,        \* Post view: getPost calls in flight, each with its alive flag
    pvOutcome,     \* what the last committed getPost call of the view returned
    slugCounts,    \* Post view: counts of the slugger held by markdownComponents
    headingIds,    \* Post view: ids given to the rendered h2/h3, last render
    renders,       \* Post view: renders of the body since it was last set
    viewStore,     \* localStorage["loopblog:views"]: <<>> when the key is missing, else <<text>>
    bumps,         \* id -> the bumpView(id) calls that ran to their end, since the start
    lastBump,      \* what the last bumpView call did: the store before it, and how it ended
    loads,         \* loads in flight of Home, of the Post view's post list and of EditPost,
                   \* each with whether its answer is still wanted
    homeVideos,    \* Home view: <<>> when unmounted, else <<[videos, loading, error]>>
    pvAllPosts,    \* Post view: useState allPosts
    lastAnswer,    \* the last answer to a load of loads: the load, and whether it was taken
    wr,            \* Write view: its useState fields and the onSave call in progress
    ra             \* RequireAuth: its useState fields, its effect's alive flag, the
                   \* getSession call and the notifications on their way to it

storeVars == <<rows, nextId, bucket>>
repoVars == <<rows, nextId, bucket, now, authUser, ra, lastAdd, home, ep, wr>>
pvVars == <<pvPost, pvLoading, pvErr, pvId, pvReqs, pvOutcome>>
tocVars == <<slugCounts, headingIds, renders>>
viewVars == <<viewStore, bumps, lastBump>>
loadVars == <<loads, homeVideos, pvAllPosts, lastAnswer>>

\* a nullable value is <<>> (null, undefined) or <<v>>
None == <<>>
Some(v) == <<v>>
\* o ?? d
OrElse(o, d) == IF o = None THEN d ELSE o[1]

-----------------------------------------------------------------------------
(* Bounds of the model *)

\* lines of a post body
MaxLines == 3
\* words of a heading's text
MaxWords == 2
\* re-renders of the Post view with an unchanged body
MaxRenders == 2
\* rows the backend table ever holds (ids are never reused)
MaxPosts == 2
\* the last tick of the clock
MaxTime == 3
\* ticks in a minute (the code: 60000 ms)
TicksPerMinute == 2
\* files chosen in one onAddImages call
MaxFiles == 2
\* images of one post
MaxImages == 2
\* media operations (cover replaced, images added, image removed) of a run
MaxMediaOps == 2
MaxPending == 2
MaxNames == 6

-----------------------------------------------------------------------------
(* Characters and strings *)

IsSpace(c) == c \in {" "}
IsWord(c) == c \in {"a", "b", "d", "e", "h", "l", "o", "r", "w", "A", "B", "H", "W", "_",
                    "0", "1", "2", "3", "4", "5", "6", "7", "8", "9"}

\* String.prototype.toLowerCase, one character
LowerChar(c) ==
    CASE c = "A" -> "a" [] c = "B" -> "b" [] c = "H" -> "h" [] c = "W" -> "w" [] OTHER -> c

MapLower(s) == [i \in 1..Len(s) |-> LowerChar(s[i])]

RECURSIVE TrimLeft(_)
TrimLeft(s) == IF s # <<>> /\ IsSpace(Head(s)) THEN TrimLeft(Tail(s)) ELSE s

RECURSIVE TrimRight(_)
TrimRight(s) ==
    IF s # <<>> /\ IsSpace(s[Len(s)]) THEN TrimRight(SubSeq(s, 1, Len(s) - 1)) ELSE s

\* String.prototype.trim
Trim(s) == TrimRight(TrimLeft(s))

\* s.replace(/[^\w\s-]/g, "")
KeepSlugChars(s) == SelectSeq(s, LAMBDA c : IsWord(c) \/ IsSpace(c) \/ c = "-")

\* s.replace(/\s+/g, "-"): every maximal run of whitespace becomes one hyphen
RECURSIVE SpacesToHyphen(_)
SpacesToHyphen(s) ==
    IF s = <<>> THEN <<>>
    ELSE IF IsSpace(Head(s))
         THEN <<"-">> \o SpacesToHyphen(TrimLeft(s))
         ELSE <<Head(s)>> \o SpacesToHyphen(Tail(s))

\* s.replace(/-+/g, "-"): every run of hyphens becomes one hyphen
RECURSIVE CollapseHyphens(_)
CollapseHyphens(s) ==
    IF s = <<>> THEN <<>>
    ELSE IF Head(s) = "-" /\ Len(s) > 1 /\ s[2] = "-"
         THEN CollapseHyphens(Tail(s))
         ELSE <<Head(s)>> \o CollapseHyphens(Tail(s))

DigitChar(d) ==
    CASE d = 0 -> "0" [] d = 1 -> "1" [] d = 2 -> "2" [] d = 3 -> "3" [] d = 4 -> "4"
      [] d = 5 -> "5" [] d = 6 -> "6" [] d = 7 -> "7" [] d = 8 -> "8" [] d = 9 -> "9"

\* the decimal text of a number, as a template literal prints it
RECURSIVE NatToStr(_)
NatToStr(n) ==
    IF n < 10 THEN <<DigitChar(n)>> ELSE NatToStr(n \div 10) \o <<DigitChar(n % 10)>>

\* first index >= i of character c in s, 0 when there is none
RECURSIVE IndexFrom(_, _, _)
IndexFrom(s, c, i) ==
    IF i > Len(s) THEN 0 ELSE IF s[i] = c THEN i ELSE IndexFrom(s, c, i + 1)

\* s.replace(/\[([^\]]+)\]\([^)]+\)/g, "$1"): [text](url) becomes text
RECURSIVE LinksToText(_)
LinksToText(s) ==
    IF s = <<>> THEN <<>>
    ELSE LET j == IndexFrom(s, "]", 2)
             k == IF j = 0 THEN 0 ELSE IndexFrom(s, ")", j + 2)
             isLink == /\ Head(s) = "["
                       /\ j >= 3
                       /\ j + 1 <= Len(s) /\ s[j + 1] = "("
                       /\ k >= j + 3
         IN  IF isLink
             THEN SubSeq(s, 2, j - 1) \o LinksToText(SubSeq(s, k + 1, Len(s)))
             ELSE <<Head(s)>> \o LinksToText(Tail(s))

-----------------------------------------------------------------------------
(* Post.tsx: slugify, createSlugger, extractToc *)

slugify(input) ==
    CollapseHyphens(SpacesToHyphen(KeepSlugChars(Trim(MapLower(input)))))

Section == <<"s", "e", "c", "t", "i", "o", "n">>

\* the base slug of a heading text: slugify(text) || "section"
SlugBase(text) == IF slugify(text) = <<>> THEN Section ELSE slugify(text)

\* counts[base] ?? 0
CountOf(counts, base) == IF base \in DOMAIN counts THEN counts[base] ELSE 0

\* the anchor with the suffix counted from the second heading
SluggerIdOffByOne(base, n) == IF n = 1 THEN base ELSE base \o <<"-">> \o NatToStr(n - 1)

\* the anchor the slugger returns for its n-th heading of one base slug
SluggerId(base, n) == IF n = 1 THEN base ELSE base \o <<"-">> \o NatToStr(n)

\* one call of the closure createSlugger() returns: the id and the new counts
SlugCall(counts, text) ==
    LET base == SlugBase(text)
        n == CountOf(counts, base) + 1
    IN  [id |-> SluggerId(base, n),
         counts |-> [b \in DOMAIN counts \cup {base} |->
                        IF b = base THEN n ELSE counts[b]]]

\* the slugger applied to a sequence of texts in order, from given counts
RECURSIVE SlugAll(_, _)
SlugAll(counts, texts) ==
    IF texts = <<>> THEN [ids |-> <<>>, counts |-> counts]
    ELSE LET one == SlugCall(counts, Head(texts))
             rest == SlugAll(one.counts, Tail(texts))
         IN  [ids |-> <<one.id>> \o rest.ids, counts |-> rest.counts]

NoCounts == [b \in {} |-> 0]

\* A body is the sequence of its lines (md.split("\n")), a line a string.

\* the number of "#" a line starts with
RECURSIVE LeadingHashes(_)
LeadingHashes(line) ==
    IF line # <<>> /\ Head(line) = "#" THEN 1 + LeadingHashes(Tail(line)) ELSE 0

\* /^(#{2,3})\s+(.+?)\s*$/.exec(line): <<m[2]>>, or None when the line does not match
HeadingMatch(line) ==
    LET n == LeadingHashes(line)
        rest == SubSeq(line, n + 1, Len(line))
    IN  IF n \in {2, 3} /\ rest # <<>> /\ IsSpace(Head(rest)) /\ Len(rest) >= 2
        THEN IF Trim(rest) = <<>>
             THEN Some(<<" ">>)
             ELSE Some(Trim(rest))
        ELSE None

\* the backquote character (the module's strings cannot hold it)
Backquote == "BACKQUOTE"

\* s.replace(/[*_BACKQUOTE]/g, ""): asterisks, underscores and backquotes dropped
StripMarks(s) == SelectSeq(s, LAMBDA c : c \notin {"*", "_", Backquote})

\* the text extractToc keeps of a heading: links to their text, marks dropped, trimmed
TocText(m2) == Trim(StripMarks(LinksToText(m2)))

\* the texts of the headings extractToc finds, in line order
RECURSIVE TocTexts(_)
TocTexts(lines) ==
    IF lines = <<>> THEN <<>>
    ELSE LET m == HeadingMatch(Head(lines))
         IN  IF m = None \/ TocText(m[1]) = <<>>
             THEN TocTexts(Tail(lines))
             ELSE <<TocText(m[1])>> \o TocTexts(Tail(lines))

\* extractToc(md): one slugger, one item per heading, top to bottom
\* (an item's level plays no part in its id and is left out)
extractToc(md) ==
    LET texts == TocTexts(md)
        ids == SlugAll(NoCounts, texts).ids
    IN  [i \in 1..Len(texts) |-> [text |-> texts[i], id |-> ids[i]]]

\* What <ReactMarkdown> renders as h2/h3 (CommonMark): the ATX headings of
\* level 2 and 3 outside fenced code blocks, a fence left open running to the
\* end of the body. Each is given as its children, a sequence of text nodes.
IsFence(line) ==
    Len(line) >= 3 /\ SubSeq(line, 1, 3) = <<Backquote, Backquote, Backquote>>

IsAtxHeading(line) ==
    LET n == LeadingHashes(line)
    IN  n \in {2, 3} /\ (Len(line) = n \/ IsSpace(line[n + 1]))

RECURSIVE RenderedHeadings(_, _)
RenderedHeadings(lines, inFence) ==
    IF lines = <<>> THEN <<>>
    ELSE IF IsFence(Head(lines)) THEN RenderedHeadings(Tail(lines), ~inFence)
    ELSE IF ~inFence /\ IsAtxHeading(Head(lines))
         THEN LET n == LeadingHashes(Head(lines))
                  content == Trim(SubSeq(Head(lines), n + 1, Len(Head(lines))))
              IN  <<IF content = <<>> THEN <<>> ELSE <<content>>>>
                      \o RenderedHeadings(Tail(lines), inFence)
         ELSE RenderedHeadings(Tail(lines), inFence)

\* getNodeText(children): the text nodes joined
RECURSIVE getNodeText(_)
getNodeText(node) ==
    IF node = <<>> THEN <<>> ELSE Head(node) \o getNodeText(Tail(node))

-----------------------------------------------------------------------------
(* Post.tsx: stripMarkdown, countWords, readingTimeLabel *)

\* the line feed character
Newline == "NEWLINE"

\* \s
IsWhite(c) == c \in {" ", Newline}

\* the body text: its lines joined by line feeds
RECURSIVE JoinLines(_)
JoinLines(lines) ==
    IF lines = <<>> THEN <<>>
    ELSE IF Len(lines) = 1 THEN lines[1]
    ELSE lines[1] \o <<Newline>> \o JoinLines(Tail(lines))

\* the least element of a set of numbers, 0 for the empty set
LeastOf(S) == IF S = {} THEN 0 ELSE CHOOSE j \in S : \A k \in S : j <= k

\* first index >= i where character c stands in s, 0 when there is none
FirstChar(s, c, i) == LeastOf({j \in i..Len(s) : s[j] = c})

\* first index >= i where three backquotes start in s, 0 when there is none
FirstFence(s, i) ==
    LeastOf({j \in i..(Len(s) - 2) :
                s[j] = Backquote /\ s[j + 1] = Backquote /\ s[j + 2] = Backquote})

\* s.replace(/BACKQUOTE{3}[\s\S]*?BACKQUOTE{3}/g, " "): each fenced block,
\* from a fence to the next one, becomes a space; a fence never closed stays
RECURSIVE StripFences(_)
StripFences(s) ==
    LET p == FirstFence(s, 1)
        q == IF p = 0 THEN 0 ELSE FirstFence(s, p + 3)
    IN  IF q = 0 THEN s
        ELSE SubSeq(s, 1, p - 1) \o <<" ">> \o StripFences(SubSeq(s, q + 3, Len(s)))

\* s.replace(/BACKQUOTE[^BACKQUOTE]*BACKQUOTE/g, " "): inline code becomes a space
RECURSIVE StripInlineCode(_)
StripInlineCode(s) ==
    LET p == FirstChar(s, Backquote, 1)
        q == IF p = 0 THEN 0 ELSE FirstChar(s, Backquote, p + 1)
    IN  IF q = 0 THEN s
        ELSE SubSeq(s, 1, p - 1) \o <<" ">> \o StripInlineCode(SubSeq(s, q + 1, Len(s)))

\* the index where a match of \[[^\]]*\]\([^)]+\) starting at the bracket at
\* p ends, 0 when there is none; minText is the least length of the text
BracketMatchEnd(s, p, minText) ==
    LET j == FirstChar(s, "]", p + 1)
        k == IF j = 0 THEN 0 ELSE FirstChar(s, ")", j + 2)
    IN  IF /\ p <= Len(s) /\ s[p] = "["
           /\ j >= p + 1 + minText
           /\ j + 1 <= Len(s) /\ s[j + 1] = "("
           /\ k >= j + 3
        THEN k ELSE 0

\* s.replace(/!\[[^\]]*\]\([^)]+\)/g, " "): images become a space
RECURSIVE StripImages(_)
StripImages(s) ==
    LET p == FirstChar(s, "!", 1)
        k == IF p = 0 THEN 0 ELSE BracketMatchEnd(s, p + 1, 0)
    IN  IF p = 0 THEN s
        ELSE IF k = 0 THEN SubSeq(s, 1, p) \o StripImages(SubSeq(s, p + 1, Len(s)))
        ELSE SubSeq(s, 1, p - 1) \o <<" ">> \o StripImages(SubSeq(s, k + 1, Len(s)))

\* s.replace(/\[([^\]]+)\]\([^)]+\)/g, "$1") over a long text: links become
\* their text
RECURSIVE StripLinks(_)
StripLinks(s) ==
    LET p == FirstChar(s, "[", 1)
        k == IF p = 0 THEN 0 ELSE BracketMatchEnd(s, p, 1)
        j == FirstChar(s, "]", p + 1)
    IN  IF p = 0 THEN s
        ELSE IF k = 0 THEN SubSeq(s, 1, p) \o StripLinks(SubSeq(s, p + 1, Len(s)))
        ELSE SubSeq(s, 1, p - 1) \o SubSeq(s, p + 1, j - 1)
                 \o StripLinks(SubSeq(s, k + 1, Len(s)))

\* the length of the run of characters of C that starts at i
RECURSIVE RunLength(_, _, _)
RunLength(s, C, i) ==
    IF i > Len(s) \/ s[i] \notin C THEN 0 ELSE 1 + RunLength(s, C, i + 1)

\* s.replace(/^M{1,most}\s+/gm, "") from index from on, M the characters of
\* marks: at the start of a line, a run of one to most marks and the
\* whitespace after it (line feeds too) are dropped
RECURSIVE StripLineMarks(_, _, _, _)
StripLineMarks(s, marks, most, from) ==
    LET p == LeastOf({i \in from..Len(s) : i = 1 \/ s[i - 1] = Newline})
        h == RunLength(s, marks, p)
        w == RunLength(s, {" ", Newline}, p + h)
    IN  IF p = 0 THEN SubSeq(s, from, Len(s))
        ELSE IF h >= 1 /\ h <= most /\ w >= 1
             THEN SubSeq(s, from, p - 1) \o StripLineMarks(s, marks, most, p + h + w)
             ELSE SubSeq(s, from, p) \o StripLineMarks(s, marks, most, p + 1)

\* the characters of s[lo..hi] that s.replace(/\s+/g, " ").trim() keeps: the
\* others than whitespace, and one space for each run of whitespace that has
\* such a character before it and after it (last is the index of the last one)
RECURSIVE CollapsedRange(_, _, _, _)
CollapsedRange(s, lo, hi, last) ==
    IF lo > hi THEN <<>>
    ELSE IF lo = hi
         THEN IF ~IsWhite(s[lo]) THEN <<s[lo]>>
              ELSE IF lo > 1 /\ ~IsWhite(s[lo - 1]) /\ lo < last THEN <<" ">>
              ELSE <<>>
    ELSE LET mid == (lo + hi) \div 2
         IN  CollapsedRange(s, lo, mid, last) \o CollapsedRange(s, mid + 1, hi, last)

\* s.replace(/\s+/g, " ").trim()
CollapseWhite(s) ==
    LET trailing == RunLength([i \in 1..Len(s) |-> s[Len(s) + 1 - i]], {" ", Newline}, 1)
    IN  CollapsedRange(s, 1, Len(s), Len(s) - trailing)

\* stripMarkdown(md)
stripMarkdown(md) ==
    CollapseWhite(
        StripLineMarks(
            StripLineMarks(
                StripLinks(StripImages(StripInlineCode(StripFences(JoinLines(md))))),
                {"#"}, 6, 1),
            {"-", "*", "+"}, 1, 1))

\* countWords(text): text.trim().split(/\s+/).filter(Boolean).length
countWords(text) ==
    Cardinality({i \in 1..Len(text) :
                    ~IsWhite(text[i]) /\ (i = 1 \/ IsWhite(text[i - 1]))})

\* words read in a minute
WordsPerMinute == 200

\* num / den cut to a whole number
MathFloor(num, den) == num \div den

\* Math.round(num / den), num >= 0 and den > 0: halves go up
MathRound(num, den) == (2 * num + den) \div (2 * den)

\* readingTimeLabel: the minutes of "N min read"
readingMinutes(md) ==
    LET words == countWords(stripMarkdown(md))
        rounded == MathRound(words, WordsPerMinute)
    IN  IF rounded > 1 THEN rounded ELSE 1

-----------------------------------------------------------------------------
(* The bodies the model draws from *)

Words == {<<"A", "!">>, <<"2">>}

\* heading texts: one to MaxWords words, a space between two
RECURSIVE TextsOf(_)
TextsOf(n) ==
    IF n = 0 THEN {}
    ELSE IF n = 1 THEN Words
    ELSE TextsOf(n - 1) \cup {t \o <<" ">> \o w : t \in TextsOf(n - 1), w \in Words}

HeadingLine(text) == <<"#", "#", " ">> \o text
FenceLine == <<Backquote, Backquote, Backquote>>

Lines == {HeadingLine(t) : t \in TextsOf(MaxWords)} \cup {FenceLine}

RECURSIVE BodiesOf(_)
BodiesOf(n) ==
    IF n = 0 THEN {<<>>}
    ELSE BodiesOf(n - 1) \cup {Append(b, l) : b \in BodiesOf(n - 1), l \in Lines}

Bodies == BodiesOf(MaxLines)

-----------------------------------------------------------------------------
(* lib/posts: the rows and the read operations *)

PostIds == 1..MaxPosts

\* a row as the backend returns it for select("*")
NewRow(id, author, title, slug, excerpt, body, cover, images, status, pub, created) ==
    [id |-> id, author_id |-> author, title |-> title, slug |-> slug,
     excerpt |-> excerpt, body |-> body, body_md |-> None, cover_path |-> cover,
     image_paths |-> images, status |-> status, published_at |-> pub,
     created_at |-> created]

\* what the column image_paths of a raw row may hold besides null (<<>>) and
\* an array (<<list>>): nothing at all (the key is absent), or a JSON value
\* that is no array
Absent == <<"undefined", "undefined">>
NonArrays == {<<"json", "string">>, <<"json", "object">>}

\* Array.isArray(v)
IsArray(v) == Len(v) = 1

\* normalizeRow with r.image_paths ?? [] for the list: only null and
\* undefined are replaced
normalizeRowNullOnly(r) ==
    [r EXCEPT !.body_md = IF r.body_md # None THEN r.body_md ELSE r.body,
              !.image_paths = IF r.image_paths = None \/ r.image_paths = Absent
                              THEN Some(<<>>) ELSE r.image_paths]

\* normalizeRow with r.body ?? r.body_md ?? null for the body
normalizeRowBodyFirst(r) ==
    [r EXCEPT !.body_md = IF r.body # None THEN r.body ELSE r.body_md,
              !.image_paths = IF IsArray(r.image_paths) THEN r.image_paths ELSE Some(<<>>)]

\* normalizeRow(r): body_md from body_md ?? body ?? null, image_paths the
\* row's when that is an array and [] otherwise
normalizeRow(r) ==
    [r EXCEPT !.body_md = IF r.body_md # None THEN r.body_md ELSE r.body,
              !.image_paths = IF IsArray(r.image_paths) THEN r.image_paths ELSE Some(<<>>)]

\* getPost with single() in place of maybeSingle(): no row is an error too
getPostSingle(table, id, backendFails) ==
    IF backendFails \/ table[id] = None THEN [kind |-> "error", data |-> None]
    ELSE [kind |-> "row", data |-> Some(normalizeRow(table[id][1]))]

\* getPost(id): the backend failing throws; no row gives null; else the row, normalized
getPost(table, id, backendFails) ==
    IF backendFails THEN [kind |-> "error", data |-> None]
    ELSE IF table[id] = None THEN [kind |-> "null", data |-> None]
    ELSE [kind |-> "row", data |-> Some(normalizeRow(table[id][1]))]

-----------------------------------------------------------------------------
(* Post.tsx, Home.tsx: the view counts kept in localStorage *)

MaxViews == 2

\* a JSON text is a sequence of tokens: a punctuation mark or a literal <<t>>,
\* or a member "id": n of an object, <<"member", id, n>>
Tok(t) == <<t>>
Member(id, n) == <<"member", id, n>>

\* the values JSON.parse answers: an object holds its members in insertion
\* order, the other values are not mappings
JsObject(members) == [type |-> "object", members |-> members]
JsNull == [type |-> "null", members |-> <<>>]
JsNumber == [type |-> "number", members |-> <<>>]
JsArray == [type |-> "array", members |-> <<>>]
EmptyObject == JsObject(<<>>)

\* JSON.parse(text): a value, or a SyntaxError
JSONparse(text) ==
    IF text = <<Tok("null")>> THEN [threw |-> FALSE, value |-> JsNull]
    ELSE IF text = <<Tok("7")>> THEN [threw |-> FALSE, value |-> JsNumber]
    ELSE IF text = <<Tok("["), Tok("]")>> THEN [threw |-> FALSE, value |-> JsArray]
    ELSE IF /\ Len(text) >= 2
            /\ text[1] = Tok("{") /\ text[Len(text)] = Tok("}")
            /\ \A i \in 2..(Len(text) - 1) : Len(text[i]) = 3
         THEN [threw |-> FALSE,
               value |-> JsObject([i \in 1..(Len(text) - 2) |->
                                      <<text[i + 1][2], text[i + 1][3]>>])]
    ELSE [threw |-> TRUE, value |-> JsNull]

\* JSON.stringify(value): an array is written without the named properties
\* set on it
JSONstringify(v) ==
    IF v.type = "null" THEN <<Tok("null")>>
    ELSE IF v.type = "number" THEN <<Tok("7")>>
    ELSE IF v.type = "array" THEN <<Tok("["), Tok("]")>>
    ELSE <<Tok("{")>>
            \o [i \in 1..Len(v.members) |-> Member(v.members[i][1], v.members[i][2])]
            \o <<Tok("}")>>

\* data[id], <<>> when undefined
Lookup(v, id) ==
    LET hits == {i \in 1..Len(v.members) : v.members[i][1] = id}
    IN  IF hits = {} THEN None ELSE Some(v.members[CHOOSE i \in hits : TRUE][2])

\* data[id] = n that forgets the other members
AssignAlone(v, id, n) == JsObject(<<<<id, n>>>>)

\* data[id] = n on an object: the member is replaced in place, or added last
Assign(v, id, n) ==
    IF Lookup(v, id) = None
    THEN JsObject(Append(v.members, <<id, n>>))
    ELSE JsObject([i \in 1..Len(v.members) |->
                      IF v.members[i][1] = id THEN <<id, n>> ELSE v.members[i]])

\* raw ? JSON.parse(raw) : {}  (a missing key and the empty text are falsy)
ParseOrEmpty(store) ==
    IF store = None \/ store[1] = <<>>
    THEN [threw |-> FALSE, value |-> EmptyObject]
    ELSE JSONparse(store[1])

\* the try block of bumpView: where it throws, and what it stores when it
\* does not. Reading a property of null throws; so does, in module (strict)
\* code, setting one on a number; an array takes the property and loses it
\* when written
BumpTry(store, id, writeFails) ==
    LET parsed == ParseOrEmpty(store)
        data == parsed.value
    IN  IF parsed.threw THEN [threw |-> TRUE, store |-> store]
        ELSE IF data.type \in {"null", "number"} THEN [threw |-> TRUE, store |-> store]
        ELSE IF writeFails THEN [threw |-> TRUE, store |-> store]
        ELSE IF data.type = "array" THEN [threw |-> FALSE, store |-> Some(JSONstringify(data))]
        ELSE [threw |-> FALSE,
              store |-> Some(JSONstringify(
                            Assign(data, id, OrElse(Lookup(data, id), 0) + 1)))]

\* bumpView with its catch left out
bumpViewUncaught(store, id, writeFails) ==
    LET try == BumpTry(store, id, writeFails)
    IN  [raised |-> try.threw, ended |-> ~try.threw, store |-> try.store]

\* bumpView(id): whatever the try block throws is caught and dropped
bumpView(store, id, writeFails) ==
    LET try == BumpTry(store, id, writeFails)
    IN  [raised |-> FALSE, ended |-> ~try.threw, store |-> try.store]

\* getViews(): what was parsed, whatever it is; {} when parsing throws
getViews(store) ==
    LET parsed == ParseOrEmpty(store)
    IN  IF parsed.threw THEN EmptyObject ELSE parsed.value

\* the variables after bumpView(id) was called on the store st
Bumped(st, id, writeFails) ==
    LET b == bumpView(st, id, writeFails)
    IN  /\ bumps[id] < MaxViews
        /\ viewStore' = b.store
        /\ bumps' = IF b.ended THEN [bumps EXCEPT ![id] = @ + 1] ELSE bumps
        /\ lastBump' = Some([id |-> id, before |-> st, writeFailed |-> writeFails,
                             raised |-> b.raised, ended |-> b.ended])

-----------------------------------------------------------------------------
(* Home.tsx, Post.tsx, EditPost.tsx: loads in flight *)

\* a load a view started: of the posts or the videos of Home, of the post
\* list of the Post view, or of the post /edit/id shows (id is 0 for the
\* lists). alive is the flag of the effect that started it, set to false by
\* its cleanup; Home keeps no flag, and for its loads alive tells whether the
\* component that started them is still mounted: React drops the state
\* updates of a component that is not
Load(view, id) == [view |-> view, id |-> id, alive |-> TRUE]

\* the loads of some views are given up: cleanup, or unmount
Abandon(ls, views) ==
    {IF r.view \in views THEN [r EXCEPT !.alive = FALSE] ELSE r : r \in ls}

\* any answer is taken
AnyAnswer(req) == TRUE

\* if (!alive) return: the answer of a load given up is not taken
StillWanted(req) == req.alive

-----------------------------------------------------------------------------
(* Post.tsx: the Post view *)

\* bodyText: post.body_md ?? post.body ?? ""
BodyTextOf(post) ==
    IF post = None THEN <<>> ELSE OrElse(post[1].body_md, OrElse(post[1].body, <<>>))

bodyText == BodyTextOf(pvPost)

\* toc: extractToc(bodyText), memoized on bodyText
toc == extractToc(bodyText)

\* the early returns of the component, in order
PostScreen ==
    IF pvId = None THEN "unmounted"
    ELSE IF pvLoading THEN "loading"
    ELSE IF pvErr # None THEN "error"
    ELSE IF pvPost = None THEN "notfound"
    ELSE "post"

\* one render of <ReactMarkdown> with the h2/h3 components: the slugger of
\* markdownComponents is called once per rendered heading, in order
RenderBody(counts, body) ==
    LET hs == RenderedHeadings(body, FALSE)
    IN  SlugAll(counts, [i \in 1..Len(hs) |-> getNodeText(hs[i])])

\* the state after the view's state was set to (post, loading, err): a changed
\* bodyText makes useMemo build a new slugger; the render that follows calls
\* it when the body is on screen (the renders one slugger serves are capped
\* at MaxRenders)
Commit(post, loading, err) ==
    LET fresh == BodyTextOf(post) # bodyText
        counts == IF fresh THEN NoCounts ELSE slugCounts
        shown == ~loading /\ err = None /\ post # None
        r == RenderBody(counts, BodyTextOf(post))
    IN  /\ (shown /\ ~fresh) => renders < MaxRenders
        /\ pvPost' = post
        /\ pvLoading' = loading
        /\ pvErr' = err
        /\ slugCounts' = IF shown THEN r.counts ELSE counts
        /\ headingIds' = IF shown THEN r.ids ELSE <<>>
        /\ renders' = IF shown THEN (IF fresh THEN 1 ELSE renders + 1) ELSE (IF fresh THEN 0 ELSE renders)

\* the route changes to /post/id: the effect of the old id is cleaned up
\* (alive = false), the new one sets loading and calls getPost(id)
PvOpen(id, writeFails) ==
    /\ home = None /\ ep.id = None /\ ~wr.mounted
    /\ pvId # Some(id)
    /\ pvId' = Some(id)
    /\ pvReqs' = {[r EXCEPT !.alive = FALSE] : r \in pvReqs} \cup {[id |-> id, alive |-> TRUE]}
    /\ pvOutcome' = None
    /\ IF pvId = None
       THEN Commit(None, TRUE, None)
       ELSE Commit(pvPost, TRUE, None)
    /\ Bumped(viewStore, id, writeFails)
    /\ loads' = IF pvId = None THEN loads \cup {Load("postList", 0)} ELSE loads
    /\ UNCHANGED <<repoVars, homeVideos, pvAllPosts, lastAnswer>>

\* the view is unmounted: its effects are cleaned up, its state is dropped
PvClose ==
    /\ pvId # None
    /\ pvId' = None
    /\ pvReqs' = {[r EXCEPT !.alive = FALSE] : r \in pvReqs}
    /\ pvOutcome' = None
    /\ pvPost' = None /\ pvLoading' = TRUE /\ pvErr' = None
    /\ slugCounts' = NoCounts /\ headingIds' = <<>> /\ renders' = 0
    /\ loads' = Abandon(loads, {"postList"})
    /\ pvAllPosts' = <<>>
    /\ UNCHANGED <<repoVars, viewVars, homeVideos, lastAnswer>>

FailedToLoad == <<"F">>

\* a getPost call of the view settles
PvResponse(req, backendFails) ==
    LET res == getPost(rows, req.id, backendFails)
    IN  /\ req \in pvReqs
        /\ pvReqs' = pvReqs \ {req}
        /\ IF req.alive
           THEN /\ pvOutcome' = Some([failed |-> backendFails,
                                       hadRow |-> rows[req.id] # None,
                                       kind |-> res.kind])
                /\ IF res.kind = "error"
                   THEN Commit(None, FALSE, Some(FailedToLoad))
                   ELSE Commit(res.data, FALSE, pvErr)
           ELSE UNCHANGED <<pvOutcome, pvPost, pvLoading, pvErr, slugCounts, headingIds, renders>>
        /\ UNCHANGED <<pvId, repoVars, viewVars, loadVars>>

\* the view renders again with its post unchanged (the copy-link state, the
\* viewport width or the list of all posts changed)
RenderPost ==
    /\ PostScreen = "post"
    /\ Commit(pvPost, pvLoading, pvErr)
    /\ UNCHANGED <<pvId, pvReqs, pvOutcome, repoVars, viewVars, loadVars>>

-----------------------------------------------------------------------------
(* The backend: sign-in state, clock, table writes *)

Users == {"u1"}

\* EditPost.tsx: the component's state at mount
EpDefaults ==
    [id |-> None, post |-> None, loading |-> TRUE, err |-> None, ok |-> None,
     title |-> <<>>, excerpt |-> <<>>, bodyMd |-> <<>>, status |-> "draft",
     publishedAtLocal |-> None, coverPath |-> None, imagePaths |-> <<>>,
     dateTyped |-> FALSE, mediaOps |-> 0]

\* the component unmounted: its state is dropped (the count of media
\* operations, which bounds the model, is kept)
EpUnmounted == [EpDefaults EXCEPT !.mediaOps = ep.mediaOps]

\* RequireAuth: the state before it is mounted. session is the getSession
\* call ("none": not called, "called": the session not read yet, <<present>>:
\* read, the promise settled, "done": its callback ran), initial whether the
\* notification a new subscriber gets is still due; informed and lastNote
\* record what this instance was told, and by which notification last
RaDefaults ==
    [mounted |-> FALSE, route |-> "none", checking |-> TRUE, authed |-> FALSE,
     alive |-> FALSE, session |-> "none", initial |-> "none",
     informed |-> FALSE, lastNote |-> "none"]

\* Write: the initial useState values, and the locals of onSave while it
\* runs (awaiting names the call it waits for). uploads and inserts count the
\* calls the last onSave issued, failedAt names the call that threw in it,
\* names counts the file names drawn so far
WrDefaults ==
    [mounted |-> FALSE, title |-> <<>>, body |-> <<>>, pending |-> 0,
     saving |-> FALSE, err |-> None, stage |-> None, step |-> 0, totalSteps |-> 0,
     awaiting |-> "none", cleanTitle |-> <<>>, cleanBody |-> <<>>, slug |-> <<>>,
     batch |-> 0, cover_path |-> None, image_paths |-> <<>>,
     uploads |-> 0, inserts |-> 0, failedAt |-> "none", names |-> 0]

\* the component unmounted: its state is dropped (the count of names drawn,
\* which bounds the model, is kept)
WrUnmounted == [WrDefaults EXCEPT !.names = wr.names]

\* the router shows one view at a time: none of Home, EditPost, Post, Write
\* is mounted
NoViewMounted == home = None /\ ep.id = None /\ pvId = None /\ ~wr.mounted

\* Admin.tsx login: signInWithPassword succeeded
Login ==
    /\ NoViewMounted
    /\ authUser = None
    /\ authUser' = Some("u1")
    /\ UNCHANGED <<rows, nextId, bucket, now, ra, lastAdd, wr, home, ep, pvVars, tocVars, viewVars,
                   loadVars>>

\* NavBar.tsx onLogout: signOut, then nav("/admin"): whatever view was mounted
\* is unmounted (RequireAuth redirects the EditPost and Write routes there as
\* well). The author does not sign out while a save of Write is running.
Logout ==
    /\ authUser # None
    /\ wr.awaiting = "none"
    /\ wr' = WrUnmounted
    /\ authUser' = None
    /\ home' = None
    /\ ep' = EpUnmounted
    /\ pvId' = None
    /\ pvReqs' = {[r EXCEPT !.alive = FALSE] : r \in pvReqs}
    /\ pvOutcome' = None
    /\ pvPost' = None /\ pvLoading' = TRUE /\ pvErr' = None
    /\ slugCounts' = NoCounts /\ headingIds' = <<>> /\ renders' = 0
    /\ loads' = Abandon(loads, {"home", "homeVideos", "postList", "edit"})
    /\ homeVideos' = None
    /\ pvAllPosts' = <<>>
    /\ ra' = RaDefaults
    /\ UNCHANGED <<rows, nextId, bucket, now, lastAdd, viewVars, lastAnswer>>

\* the session ends with no view unmounted (it expires, or is revoked): the
\* next getUser finds no user. It does not end while a save of Write is
\* running.
SessionEnds ==
    /\ authUser # None
    /\ wr.awaiting = "none"
    /\ authUser' = None
    /\ UNCHANGED <<rows, nextId, bucket, now, ra, lastAdd, wr, home, ep, pvVars, tocVars, viewVars,
                   loadVars>>

\* time passes
Tick ==
    /\ now < MaxTime
    /\ now' = now + 1
    /\ UNCHANGED <<rows, nextId, bucket, authUser, ra, lastAdd, wr, home, ep, pvVars, tocVars, viewVars, loadVars>>

NoFields == [f \in {} |-> None]

\* update(partial): the row with the partial's fields replaced (a PATCH)
ApplyPartial(row, partial) ==
    [f \in DOMAIN row |-> IF f \in DOMAIN partial THEN partial[f] ELSE row[f]]

\* the slugs of the stored rows (the table's unique key posts_slug_key)
StoredSlugs(table) == {table[i][1].slug : i \in {j \in PostIds : table[j] # None}}

-----------------------------------------------------------------------------
(* lib/posts: addPost *)

\* the payload with published_at stamped whatever the status
AddPayloadAlwaysStamped(input, author, t) ==
    [author_id |-> author, title |-> input.title, slug |-> input.slug,
     excerpt |-> input.excerpt, body |-> Some(input.body_md),
     cover_path |-> input.cover_path,
     image_paths |-> Some(OrElse(input.image_paths, <<>>)),
     status |-> OrElse(input.status, "draft"),
     published_at |-> Some(t)]

\* the payload addPost inserts for an input, an author and the time of the call
AddPayload(input, author, t) ==
    LET status == OrElse(input.status, "draft")
    IN  [author_id |-> author, title |-> input.title, slug |-> input.slug,
         excerpt |-> input.excerpt, body |-> Some(input.body_md),
         cover_path |-> input.cover_path,
         image_paths |-> Some(OrElse(input.image_paths, <<>>)),
         status |-> status,
         published_at |-> IF status = "published" THEN Some(t) ELSE None]

\* the author with a stand-in when nobody is signed in
AuthorOrDefault(user) == IF user = None THEN Some("anonymous") ELSE user

\* userData.user?.id: the author addPost writes, <<>> making it throw
AuthorOf(user) == user

\* the row insert(payload).select("*").single() stores: the backend adds the
\* id and created_at, and leaves the column body_md null
InsertedRow(id, payload, t) ==
    NewRow(id, payload.author_id, payload.title, payload.slug, payload.excerpt,
           payload.body, payload.cover_path, payload.image_paths, payload.status,
           payload.published_at, t)

\* addPost(input): getUser failing (userErr) throws; no user throws "Not
\* logged in"; then one insert, which a backend failure or a slug already
\* stored makes throw. It is called from the Write view.
AddPost(input, userErr, backendFails) ==
    LET author == AuthorOf(authUser)
        row == InsertedRow(nextId, AddPayload(input, author[1], now), now)
    IN  /\ NoViewMounted
        /\ nextId <= MaxPosts
        /\ IF userErr
           THEN /\ UNCHANGED <<rows, nextId>>
                /\ lastAdd' = Some([kind |-> "error", insertIssued |-> FALSE,
                                     image_paths |-> None])
           ELSE IF author = None
           THEN /\ UNCHANGED <<rows, nextId>>
                /\ lastAdd' = Some([kind |-> "notLoggedIn", insertIssued |-> FALSE,
                                     image_paths |-> None])
           ELSE IF backendFails \/ input.slug \in StoredSlugs(rows)
           THEN /\ UNCHANGED <<rows, nextId>>
                /\ lastAdd' = Some([kind |-> "error", insertIssued |-> TRUE,
                                     image_paths |-> None])
           ELSE /\ rows' = [rows EXCEPT ![nextId] = Some(row)]
                /\ nextId' = nextId + 1
                /\ lastAdd' = Some([kind |-> "ok", insertIssued |-> TRUE,
                                     image_paths |-> normalizeRow(row).image_paths])
        /\ UNCHANGED <<bucket, now, authUser, ra, home, ep, wr, pvVars, tocVars, viewVars, loadVars>>

-----------------------------------------------------------------------------
(* lib/posts: loadPosts, and the Home view that calls it *)

StoredIds(table) == {i \in PostIds : table[i] # None}

\* eq("status", "published")
PublishedIds(table) == {i \in StoredIds(table) : table[i][1].status = "published"}

\* the orders in which a set can be listed
RECURSIVE OrdersOf(_)
OrdersOf(S) ==
    IF S = {} THEN {<<>>}
    ELSE UNION {{<<x>> \o o : o \in OrdersOf(S \ {x})} : x \in S}

\* a may come before b under ORDER BY published_at DESC: nulls first, ties free
DescBefore(a, b) ==
    \/ a.published_at = None
    \/ b.published_at # None /\ a.published_at[1] >= b.published_at[1]

\* o lists rows of the table in an order the backend may answer
Sorted(table, o) ==
    \A i, j \in 1..Len(o) : i < j => DescBefore(table[o[i]][1], table[o[j]][1])

Listing(table, o) == [i \in 1..Len(o) |-> normalizeRow(table[o[i]][1])]

\* loadPosts without the status filter
loadPostsUnfiltered(table) ==
    {Listing(table, o) :
        o \in {q \in OrdersOf(StoredIds(table)) : Sorted(table, q)}}

\* loadPosts(): the lists the backend may answer with, each row normalized
loadPosts(table) ==
    {Listing(table, o) :
        o \in {q \in OrdersOf(PublishedIds(table)) : Sorted(table, q)}}

\* the backend table "youtube_videos", newest first: a row may lack its id
VideoRows ==
    << [youtube_id |-> Some(<<"v", "2">>), title |-> None],
       [youtube_id |-> None, title |-> Some(<<"T">>)],
       [youtube_id |-> Some(<<>>), title |-> Some(<<"T">>)],
       [youtube_id |-> Some(<<"v", "1">>), title |-> Some(<<"T">>)] >>

\* the rows with a youtube_id that is a string and not empty
RECURSIVE WithYoutubeId(_)
WithYoutubeId(vs) ==
    IF vs = <<>> THEN <<>>
    ELSE (IF Head(vs).youtube_id # None /\ Head(vs).youtube_id[1] # <<>>
          THEN <<[youtube_id |-> Head(vs).youtube_id[1], title |-> Head(vs).title]>>
          ELSE <<>>) \o WithYoutubeId(Tail(vs))

\* the videos Home sets from the answer
HomeVideoList == WithYoutubeId(VideoRows)

\* Home mounts, and both its loads are answered: its effects call loadPosts()
\* and set posts, or error, and read the videos
HomeOpen(backendFails) ==
    /\ NoViewMounted
    /\ IF backendFails
       THEN home' = Some([posts |-> <<>>, loading |-> FALSE, error |-> Some(<<"F">>)])
       ELSE \E list \in loadPosts(rows) :
               home' = Some([posts |-> list, loading |-> FALSE, error |-> None])
    /\ homeVideos' = Some([videos |-> HomeVideoList, loading |-> FALSE, error |-> None])
    /\ UNCHANGED <<rows, nextId, bucket, now, authUser, ra, lastAdd, wr, ep, pvVars, tocVars, viewVars,
                   loads, pvAllPosts, lastAnswer>>

\* Home unmounts
HomeClose ==
    /\ home # None
    /\ home' = None
    /\ homeVideos' = None
    /\ loads' = Abandon(loads, {"home", "homeVideos"})
    /\ UNCHANGED <<rows, nextId, bucket, now, authUser, ra, lastAdd, wr, ep, pvVars, tocVars, viewVars,
                   pvAllPosts, lastAnswer>>

\* Home mounts: its state is the initial one, and its two effects start
\* loadPosts() and the read of the videos
HomeMount ==
    /\ NoViewMounted
    /\ home' = Some([posts |-> <<>>, loading |-> TRUE, error |-> None])
    /\ homeVideos' = Some([videos |-> <<>>, loading |-> TRUE, error |-> None])
    /\ loads' = loads \cup {Load("home", 0), Load("homeVideos", 0)}
    /\ UNCHANGED <<rows, nextId, bucket, now, authUser, ra, lastAdd, wr, ep, pvVars, tocVars, viewVars,
                   pvAllPosts, lastAnswer>>

\* loadPosts() of Home settles: setPosts or setError, then setLoading(false);
\* they change nothing when the Home that asked is unmounted
HomeResponse(req, backendFails) ==
    /\ req \in loads /\ req.view = "home"
    /\ loads' = loads \ {req}
    /\ lastAnswer' = Some([load |-> req, taken |-> StillWanted(req)])
    /\ IF StillWanted(req) /\ home # None
       THEN IF backendFails
            THEN home' = Some([home[1] EXCEPT !.loading = FALSE, !.error = Some(<<"F">>)])
            ELSE \E list \in loadPosts(rows) :
                    home' = Some([home[1] EXCEPT !.loading = FALSE, !.posts = list])
       ELSE UNCHANGED home
    /\ UNCHANGED <<rows, nextId, bucket, now, authUser, ra, lastAdd, wr, ep, pvVars, tocVars, viewVars,
                   homeVideos, pvAllPosts>>

\* the read of the videos settles: setVideos or setVideoError, then
\* setVideoLoading(false)
HomeVideosResponse(req, backendFails) ==
    /\ req \in loads /\ req.view = "homeVideos"
    /\ loads' = loads \ {req}
    /\ lastAnswer' = Some([load |-> req, taken |-> StillWanted(req)])
    /\ IF StillWanted(req) /\ homeVideos # None
       THEN IF backendFails
            THEN homeVideos' = Some([homeVideos[1] EXCEPT !.loading = FALSE, !.error = Some(<<"F">>)])
            ELSE homeVideos' = Some([homeVideos[1] EXCEPT !.loading = FALSE, !.videos = HomeVideoList])
       ELSE UNCHANGED homeVideos
    /\ UNCHANGED <<rows, nextId, bucket, now, authUser, ra, lastAdd, wr, home, ep, pvVars, tocVars, viewVars,
                   pvAllPosts>>

\* loadPosts() of the Post view settles: if (alive) setAllPosts(rows), or []
PostListResponse(req, backendFails) ==
    /\ req \in loads /\ req.view = "postList"
    /\ loads' = loads \ {req}
    /\ lastAnswer' = Some([load |-> req, taken |-> StillWanted(req)])
    /\ IF StillWanted(req) /\ pvId # None
       THEN IF backendFails
            THEN pvAllPosts' = <<>>
            ELSE \E list \in loadPosts(rows) : pvAllPosts' = list
       ELSE UNCHANGED pvAllPosts
    /\ UNCHANGED <<rows, nextId, bucket, now, authUser, ra, lastAdd, wr, home, ep, pvVars, tocVars, viewVars,
                   homeVideos>>

\* the posts of the "Most Read" card
MostReadShown == 8

\* views[id] ?? 0: a number or an array has no such property
ViewCount(views, id) ==
    IF views.type = "object" THEN OrElse(Lookup(views, id), 0) ELSE 0

\* p put into a list sorted by count, highest first, behind the posts that
\* have its count
RECURSIVE InsertByViews(_, _, _)
InsertByViews(sorted, p, views) ==
    IF sorted = <<>> THEN <<p>>
    ELSE IF ViewCount(views, Head(sorted).id) >= ViewCount(views, p.id)
         THEN <<Head(sorted)>> \o InsertByViews(Tail(sorted), p, views)
         ELSE <<p>> \o sorted

\* the sort below with the least read first
RECURSIVE SortByViewsAscending(_, _)
SortByViewsAscending(posts, views) ==
    IF posts = <<>> THEN <<>>
    ELSE LET rest == SortByViewsAscending(SubSeq(posts, 1, Len(posts) - 1), views)
             p == posts[Len(posts)]
             before == {i \in 1..Len(rest) : ViewCount(views, rest[i].id) > ViewCount(views, p.id)}
             at == IF before = {} THEN Len(rest) + 1 ELSE CHOOSE i \in before : \A k \in before : i <= k
         IN  SubSeq(rest, 1, at - 1) \o <<p>> \o SubSeq(rest, at, Len(rest))

\* [...posts].sort((a, b) => (views[b.id] ?? 0) - (views[a.id] ?? 0)): the
\* sort is stable
RECURSIVE SortByViews(_, _)
SortByViews(posts, views) ==
    IF posts = <<>> THEN <<>>
    ELSE InsertByViews(SortByViews(SubSeq(posts, 1, Len(posts) - 1), views),
                       posts[Len(posts)], views)

\* mostRead: getViews(), then the sorted posts cut to the first eight. The
\* comparator reads a property of views: with two posts or more and views
\* null it throws, and the render of Home with it
mostRead(posts, store) ==
    LET views == getViews(store)
        threw == views.type = "null" /\ Len(posts) >= 2
        sorted == SortByViews(posts, views)
    IN  [threw |-> threw,
         list |-> IF threw THEN <<>>
                  ELSE SubSeq(sorted, 1, IF Len(sorted) < MostReadShown
                                         THEN Len(sorted) ELSE MostReadShown)]

\* the render of Home threw: nothing of it is on screen
HomeCrashed == home # None /\ mostRead(home[1].posts, viewStore).threw

\* a post link of Home is clicked to open the post in another tab:
\* bumpAndTick(id) counts the view and has mostRead computed again, Home stays
HomeBumpAndTick(id, writeFails) ==
    /\ home # None /\ ~HomeCrashed
    /\ \E k \in 1..Len(home[1].posts) : home[1].posts[k].id = id
    /\ Bumped(viewStore, id, writeFails)
    /\ UNCHANGED <<rows, nextId, bucket, now, authUser, ra, lastAdd, wr, home, ep, pvVars, tocVars, loadVars>>

\* a post link of Home is clicked: bumpAndTick(id) counts the view, the
\* router goes to /post/id, Home unmounts, Post mounts and its effects load
\* the post and count the view again
HomeOpenPost(id, writeFails, writeFailsAgain) ==
    LET b1 == bumpView(viewStore, id, writeFails)
        b2 == bumpView(b1.store, id, writeFailsAgain)
        n == (IF b1.ended THEN 1 ELSE 0) + (IF b2.ended THEN 1 ELSE 0)
    IN  /\ home # None /\ ~HomeCrashed
        /\ \E k \in 1..Len(home[1].posts) : home[1].posts[k].id = id
        /\ bumps[id] + n <= MaxViews
        /\ home' = None
        /\ pvId' = Some(id)
        /\ pvReqs' = {[r EXCEPT !.alive = FALSE] : r \in pvReqs} \cup {[id |-> id, alive |-> TRUE]}
        /\ pvOutcome' = None
        /\ Commit(None, TRUE, None)
        /\ viewStore' = b2.store
        /\ bumps' = [bumps EXCEPT ![id] = @ + n]
        /\ lastBump' = Some([id |-> id, before |-> b1.store, writeFailed |-> writeFailsAgain,
                             raised |-> b2.raised, ended |-> b2.ended])
        /\ homeVideos' = None
        /\ loads' = Abandon(loads, {"home", "homeVideos"}) \cup {Load("postList", 0)}
        /\ pvAllPosts' = <<>>
        /\ UNCHANGED <<rows, nextId, bucket, now, authUser, ra, lastAdd, wr, ep, lastAnswer>>

-----------------------------------------------------------------------------
(* EditPost.tsx *)

\* toDatetimeLocal(iso): "" (here <<>>) for null, else the minute of the
\* instant, "YYYY-MM-DDTHH:mm" (here <<minute>>): seconds and below are dropped
toDatetimeLocal(iso) ==
    IF iso = None THEN None ELSE Some(iso[1] \div TicksPerMinute)

\* fromDatetimeLocal(v): null for "", else the instant the minute starts at
fromDatetimeLocal(v) ==
    IF v = None THEN None ELSE Some(v[1] * TicksPerMinute)

\* the form is on screen: signed in, loaded, and not the error card
FormShown ==
    /\ authUser # None
    /\ ep.id # None
    /\ ~ep.loading
    /\ ~(ep.err # None /\ ep.post = None)

\* the load effect's seeding of the form from the row getPost returned
Seeded(state, id, data) ==
    LET has == data # None
        r == data[1]
    IN  [state EXCEPT
            !.id = Some(id), !.loading = FALSE, !.err = None, !.ok = None,
            !.post = data,
            !.title = IF has THEN r.title ELSE <<>>,
            !.excerpt = IF has THEN OrElse(r.excerpt, <<>>) ELSE <<>>,
            !.bodyMd = IF has THEN OrElse(r.body_md, OrElse(r.body, <<>>)) ELSE <<>>,
            !.status = IF has THEN r.status ELSE "draft",
            !.publishedAtLocal = IF has THEN toDatetimeLocal(r.published_at) ELSE None,
            !.coverPath = IF has THEN r.cover_path ELSE None,
            !.imagePaths = IF has THEN OrElse(r.image_paths, <<>>) ELSE <<>>,
            !.dateTyped = FALSE]

\* the state of EditPost once getPost(id) settled and its answer was taken
EpAnswered(state, id, res) ==
    IF res.kind = "error"
    THEN [state EXCEPT !.id = Some(id), !.loading = FALSE, !.ok = None,
                       !.err = Some(<<"F">>), !.post = None]
    ELSE Seeded(state, id, res.data)

\* the route changes to /edit/id: the cleanup of the effect of the old id
\* sets its alive to false, the new effect sets loading and calls getPost(id)
EpMount(id) ==
    LET state == IF ep.id = None THEN EpUnmounted ELSE ep
    IN  /\ authUser # None
        /\ home = None /\ pvId = None /\ ~wr.mounted
        /\ ep.id # Some(id)
        /\ ep' = [state EXCEPT !.id = Some(id), !.loading = TRUE, !.err = None, !.ok = None]
        /\ loads' = Abandon(loads, {"edit"}) \cup {Load("edit", id)}
        /\ UNCHANGED <<rows, nextId, bucket, now, authUser, ra, lastAdd, wr, home, pvVars, tocVars, viewVars,
                       homeVideos, pvAllPosts, lastAnswer>>

\* getPost(id) of EditPost settles: if (!alive) return, before every set
EpResponse(req, backendFails) ==
    /\ req \in loads /\ req.view = "edit"
    /\ loads' = loads \ {req}
    /\ lastAnswer' = Some([load |-> req, taken |-> StillWanted(req)])
    /\ IF StillWanted(req) /\ ep.id # None
       THEN ep' = EpAnswered(ep, req.id, getPost(rows, req.id, backendFails))
       ELSE UNCHANGED ep
    /\ UNCHANGED <<rows, nextId, bucket, now, authUser, ra, lastAdd, wr, home, pvVars, tocVars, viewVars,
                   homeVideos, pvAllPosts>>

\* the route changes to /edit/id and getPost(id) settles
EpOpen(id, backendFails) ==
    LET state == IF ep.id = None THEN EpUnmounted ELSE ep
        res == getPost(rows, id, backendFails)
    IN  /\ authUser # None
        /\ home = None /\ pvId = None /\ ~wr.mounted
        /\ ep.id # Some(id)
        /\ ep' = EpAnswered(state, id, res)
        /\ loads' = Abandon(loads, {"edit"})
        /\ UNCHANGED <<rows, nextId, bucket, now, authUser, ra, lastAdd, wr, home, pvVars, tocVars, viewVars,
                       homeVideos, pvAllPosts, lastAnswer>>

\* the view is unmounted
EpClose ==
    /\ ep.id # None
    /\ ep' = EpUnmounted
    /\ loads' = Abandon(loads, {"edit"})
    /\ UNCHANGED <<rows, nextId, bucket, now, authUser, ra, lastAdd, wr, home, pvVars, tocVars, viewVars,
                   homeVideos, pvAllPosts, lastAnswer>>

\* the user edits a field of the form
EpSet(field, v) ==
    /\ FormShown
    /\ ep[field] # v
    /\ ep' = [ep EXCEPT ![field] = v,
                        !.dateTyped = IF field = "publishedAtLocal" THEN TRUE ELSE @]
    /\ UNCHANGED <<rows, nextId, bucket, now, authUser, ra, lastAdd, wr, home, pvVars, tocVars, viewVars, loadVars>>

\* the update of save with published_at written always, null when left empty
SavePayloadClearing(form, t) ==
    LET desired == fromDatetimeLocal(form.publishedAtLocal)
        existing == IF form.post = None THEN None ELSE form.post[1].published_at
    IN  [title |-> Trim(form.title),
         excerpt |-> IF Trim(form.excerpt) = <<>> THEN None ELSE Some(Trim(form.excerpt)),
         body_md |-> Some(form.bodyMd),
         status |-> form.status,
         cover_path |-> form.coverPath,
         image_paths |-> Some(form.imagePaths),
         published_at |-> IF desired # None THEN desired
                          ELSE IF form.status = "published" /\ existing = None
                               THEN Some(t) ELSE None]

\* the update of save with published_at written only when the date input
\* holds a value
SavePayloadNeverStamping(form, t) ==
    LET desired == fromDatetimeLocal(form.publishedAtLocal)
    IN  [title |-> Trim(form.title),
         excerpt |-> IF Trim(form.excerpt) = <<>> THEN None ELSE Some(Trim(form.excerpt)),
         body_md |-> Some(form.bodyMd),
         status |-> form.status,
         cover_path |-> form.coverPath,
         image_paths |-> Some(form.imagePaths)]
        @@ (IF desired = None THEN NoFields ELSE [published_at |-> desired])

\* the update save() sends: the form's fields, and published_at only when the
\* date input holds a value or the post is published for the first time
SavePayload(form, t) ==
    LET desired == fromDatetimeLocal(form.publishedAtLocal)
        existing == IF form.post = None THEN None ELSE form.post[1].published_at
        stamp == IF desired # None THEN Some(desired)
                 ELSE IF form.status = "published" /\ existing = None
                      THEN Some(Some(t)) ELSE None
    IN  [title |-> Trim(form.title),
         excerpt |-> IF Trim(form.excerpt) = <<>> THEN None ELSE Some(Trim(form.excerpt)),
         body_md |-> Some(form.bodyMd),
         status |-> form.status,
         cover_path |-> form.coverPath,
         image_paths |-> Some(form.imagePaths)]
        @@ (IF stamp = None THEN NoFields ELSE [published_at |-> stamp[1]])

\* save(): update(...).eq("id", id).select("*").single(); an error, or no
\* row of that id, throws and shows the error; else the row returned becomes post
EpSave(backendFails) ==
    LET id == ep.id[1]
        updated == ApplyPartial(rows[id][1], SavePayload(ep, now))
    IN  /\ FormShown
        /\ Trim(ep.title) # <<>>
        /\ IF backendFails \/ rows[id] = None
           THEN /\ ep' = [ep EXCEPT !.err = Some(<<"F">>), !.ok = None]
                /\ UNCHANGED rows
           ELSE /\ rows' = [rows EXCEPT ![id] = Some(updated)]
                /\ ep' = [ep EXCEPT !.post = Some(updated), !.err = None,
                                    !.ok = Some("Saved")]
        /\ UNCHANGED <<nextId, bucket, now, authUser, ra, lastAdd, wr, home, pvVars, tocVars, viewVars, loadVars>>

\* deletePost(), confirmed: delete().eq("id", id); an error is shown, else
\* the view navigates home and is unmounted
EpDelete(backendFails) ==
    LET id == ep.id[1]
    IN  /\ FormShown
        /\ IF backendFails
           THEN /\ ep' = [ep EXCEPT !.err = Some(<<"F">>), !.ok = None]
                /\ UNCHANGED rows
           ELSE /\ rows' = [rows EXCEPT ![id] = None]
                /\ ep' = EpUnmounted
        /\ loads' = IF backendFails THEN loads ELSE Abandon(loads, {"edit"})
        /\ UNCHANGED <<nextId, bucket, now, authUser, ra, lastAdd, wr, home, pvVars, tocVars, viewVars,
                       homeVideos, pvAllPosts, lastAnswer>>

-----------------------------------------------------------------------------
(* EditPost.tsx: the media handlers *)

\* a storage path: posts/<owner>/cover_<t>.<ext> (kind "cover"),
\* posts/<owner>/images/<t>_<i>.<ext> (kind "image"), or, with owner 0, a path
\* outside the posts/ folders, as uploadBlogImage makes them
Path(owner, kind, t, i) == [owner |-> owner, kind |-> kind, t |-> t, i |-> i]

\* path.startsWith("posts/<id>/")
InPostFolder(path, id) == path.owner = id

\* Array.from(new Set(s)): the first occurrence of each element, in order
RECURSIVE Dedupe(_)
Dedupe(s) ==
    IF s = <<>> THEN <<>>
    ELSE LET r == Dedupe(SubSeq(s, 1, Len(s) - 1))
             x == s[Len(s)]
         IN  IF \E k \in 1..Len(r) : r[k] = x THEN r ELSE Append(r, x)

\* imagePaths.filter((p) => p !== path)
WithoutPath(s, path) == SelectSeq(s, LAMBDA q : q # path)

\* await update(partial).eq("id", id), its result not looked at: the row is
\* changed when it is stored and the backend accepts the write
UpdateIgnoringError(table, id, partial, backendFails) ==
    IF backendFails \/ table[id] = None THEN table
    ELSE [table EXCEPT ![id] = Some(ApplyPartial(table[id][1], partial))]

\* the best-effort cleanup: removeFromBucket(path) for a path of the post's
\* folder, a failure swallowed
BestEffortRemove(files, path, id, removeFails) ==
    IF InPostFolder(path, id) /\ ~removeFails THEN files \ {path} ELSE files

\* onReplaceCover with a file chosen: upload (upsert), set coverPath, update
\* cover_path, clean up the previous cover
EpReplaceCover(uploadFails, updateFails, removeFails) ==
    LET id == ep.id[1]
        newPath == Path(id, "cover", now, 0)
        prev == ep.coverPath
        uploaded == bucket \cup {newPath}
    IN  /\ FormShown
        /\ ep.mediaOps < MaxMediaOps
        /\ IF uploadFails
           THEN /\ ep' = [ep EXCEPT !.err = Some(<<"F">>), !.ok = None,
                                    !.mediaOps = @ + 1]
                /\ UNCHANGED <<rows, bucket>>
           ELSE /\ ep' = [ep EXCEPT !.coverPath = Some(newPath), !.err = None,
                                    !.ok = Some("Cover updated"), !.mediaOps = @ + 1]
                /\ rows' = UpdateIgnoringError(rows, id, [cover_path |-> Some(newPath)],
                                               updateFails)
                /\ bucket' = IF prev = None THEN uploaded
                             ELSE BestEffortRemove(uploaded, prev[1], id, removeFails)
        /\ UNCHANGED <<nextId, now, authUser, ra, lastAdd, wr, home, pvVars, tocVars, viewVars, loadVars>>

\* onAddImages with n files chosen, the upload of file failAt failing (0: none
\* fails): the files before it stay uploaded and nothing else is done
EpAddImages(n, failAt, updateFails) ==
    LET id == ep.id[1]
        done == IF failAt = 0 THEN n ELSE failAt - 1
        uploaded == [i \in 1..done |-> Path(id, "image", now, i - 1)]
        next == Dedupe(ep.imagePaths \o uploaded)
    IN  /\ FormShown
        /\ ep.mediaOps < MaxMediaOps
        /\ Len(ep.imagePaths) + n <= MaxImages
        /\ bucket' = bucket \cup {uploaded[i] : i \in 1..done}
        /\ IF failAt # 0
           THEN /\ ep' = [ep EXCEPT !.err = Some(<<"F">>), !.ok = None,
                                    !.mediaOps = @ + 1]
                /\ UNCHANGED rows
           ELSE /\ ep' = [ep EXCEPT !.imagePaths = next, !.err = None,
                                    !.ok = Some("Added"), !.mediaOps = @ + 1]
                /\ rows' = UpdateIgnoringError(rows, id, [image_paths |-> Some(next)],
                                               updateFails)
        /\ UNCHANGED <<nextId, now, authUser, ra, lastAdd, wr, home, pvVars, tocVars, viewVars, loadVars>>

\* removeImage(path), from the button beside an image of the form
EpRemoveImage(path, updateFails, removeFails) ==
    LET id == ep.id[1]
        next == WithoutPath(ep.imagePaths, path)
    IN  /\ FormShown
        /\ ep.mediaOps < MaxMediaOps
        /\ \E k \in 1..Len(ep.imagePaths) : ep.imagePaths[k] = path
        /\ ep' = [ep EXCEPT !.imagePaths = next, !.err = None,
                            !.ok = Some("Image removed"), !.mediaOps = @ + 1]
        /\ rows' = UpdateIgnoringError(rows, id, [image_paths |-> Some(next)], updateFails)
        /\ bucket' = BestEffortRemove(bucket, path, id, removeFails)
        /\ UNCHANGED <<nextId, now, authUser, ra, lastAdd, wr, home, pvVars, tocVars, viewVars, loadVars>>

-----------------------------------------------------------------------------
(* RequireAuth.tsx *)

\* what RequireAuth renders: the placeholder, <Navigate to="/admin">, or its
\* children
RaScreen ==
    IF ~ra.mounted THEN "none"
    ELSE IF ra.checking THEN "checking"
    ELSE IF ~ra.authed THEN "redirect"
    ELSE "children"

\* setAuthed(!!session); setChecking(false)
RaTold(state, present) == [state EXCEPT !.authed = present, !.checking = FALSE]

\* a route wrapped in RequireAuth is entered: the effect calls getSession and
\* subscribes to onAuthStateChange
RaMount(route) ==
    /\ NoViewMounted
    /\ ~ra.mounted
    /\ ra' = [RaDefaults EXCEPT !.mounted = TRUE, !.route = route, !.alive = TRUE,
                                !.session = "called", !.initial = "due"]
    /\ UNCHANGED <<rows, nextId, bucket, now, authUser, lastAdd, wr, home, ep, pvVars, tocVars,
                   viewVars, loadVars>>

\* the client reads the session for the getSession call: its promise settles
RaSessionRead ==
    /\ ra.session = "called"
    /\ ra' = [ra EXCEPT !.session = Some(authUser # None)]
    /\ UNCHANGED <<rows, nextId, bucket, now, authUser, lastAdd, wr, home, ep, pvVars, tocVars,
                   viewVars, loadVars>>

\* the then-callback of getSession runs: if (!alive) return; setAuthed;
\* setChecking(false)
RaSessionResult ==
    /\ ra.session \in {Some(TRUE), Some(FALSE)}
    /\ ra' = IF ra.alive
             THEN [RaTold(ra, ra.session[1]) EXCEPT !.session = "done", !.informed = TRUE]
             ELSE [ra EXCEPT !.session = "done"]
    /\ UNCHANGED <<rows, nextId, bucket, now, authUser, lastAdd, wr, home, ep, pvVars, tocVars,
                   viewVars, loadVars>>

\* the callback of onAuthStateChange runs with the notification the client
\* sends a new subscriber: the session as it is
RaInitialNote ==
    /\ ra.alive
    /\ ra.initial = "due"
    /\ ra' = [RaTold(ra, authUser # None) EXCEPT
                 !.initial = "done", !.informed = TRUE,
                 !.lastNote = IF authUser # None THEN "in" ELSE "out"]
    /\ UNCHANGED <<rows, nextId, bucket, now, authUser, lastAdd, wr, home, ep, pvVars, tocVars,
                   viewVars, loadVars>>

\* the session changes while RequireAuth is subscribed (a sign-out or a
\* sign-in, in this tab or another, the session expiring, its token being
\* refreshed): the callback of onAuthStateChange runs with the new session
RaAuthChange(user) ==
    /\ ra.alive
    /\ authUser # user \/ user # None
    /\ authUser' = user
    /\ ra' = [RaTold(ra, user # None) EXCEPT
                 !.informed = TRUE,
                 !.lastNote = IF user # None THEN "in" ELSE "out"]
    /\ UNCHANGED <<rows, nextId, bucket, now, lastAdd, wr, home, ep, pvVars, tocVars,
                   viewVars, loadVars>>

\* <Navigate to="/admin" replace> is rendered and its effect navigates: the
\* route changes, RequireAuth unmounts, the cleanup sets alive to false
RaRedirect ==
    /\ RaScreen = "redirect"
    /\ ra' = RaDefaults
    /\ UNCHANGED <<rows, nextId, bucket, now, authUser, lastAdd, wr, home, ep, pvVars, tocVars,
                   viewVars, loadVars>>

\* the user leaves the route
RaLeave ==
    /\ ra.mounted
    /\ ra' = RaDefaults
    /\ UNCHANGED <<rows, nextId, bucket, now, authUser, lastAdd, wr, home, ep, pvVars, tocVars,
                   viewVars, loadVars>>

-----------------------------------------------------------------------------
(* Write (src/pages/Write.tsx): onSave, with lib/uploadImage and addPost *)

\* the images kept for upload
PendingCap == 12

\* the characters kept of a slug
SlugCap == 80

IsLowerAlnum(c) == c \in {"a", "b", "d", "e", "h", "l", "o", "r", "w",
                           "0", "1", "2", "3", "4", "5", "6", "7", "8", "9"}

\* s.replace(/[^a-z0-9]+/g, "-"): the characters of [a-z0-9] stay, and of
\* every run of other characters the first stays, as a hyphen
OthersToHyphen(s) ==
    LET stays(i) == IsLowerAlnum(s[i]) \/ i = 1 \/ IsLowerAlnum(s[i - 1])
        kept == SelectSeq([i \in 1..Len(s) |-> i], stays)
    IN  [k \in 1..Len(kept) |-> IF IsLowerAlnum(s[kept[k]]) THEN s[kept[k]] ELSE "-"]

\* s.replace(/(^-|-$)+/g, ""): the hyphen at the start and the one at the end
StripEdgeHyphens(s) ==
    LET t == IF s # <<>> /\ Head(s) = "-" THEN Tail(s) ELSE s
    IN  IF t # <<>> /\ t[Len(t)] = "-" THEN SubSeq(t, 1, Len(t) - 1) ELSE t

\* slugify of Write: lower case, trimmed, quotes dropped, every run of other
\* characters a hyphen, no hyphen at the ends, 80 characters at most
writeSlugify(input) ==
    LET quoteless == SelectSeq(Trim(MapLower(input)), LAMBDA c : c \notin {"'", "\""})
        slug == StripEdgeHyphens(OthersToHyphen(quoteless))
    IN  SubSeq(slug, 1, IF Len(slug) < SlugCap THEN Len(slug) ELSE SlugCap)

\* slugify(cleanTitle) || "post-" + Date.now()
SlugOrStamp(cleanTitle, t) ==
    IF writeSlugify(cleanTitle) # <<>> THEN writeSlugify(cleanTitle)
    ELSE <<"p", "o", "s", "t", "-">> \o NatToStr(t)

\* uploadBlogImage: the path folder/name.ext of the n-th name drawn
\* (crypto.randomUUID() never gives a name twice)
WritePath(folder, n) == Path(0, folder, 0, n)

\* what addPost(input) does: it throws before the insert, throws with the
\* insert refused, or returns the row stored
AddPostResult(input, userErr, backendFails) ==
    LET author == AuthorOf(authUser)
    IN  IF userErr THEN [kind |-> "error", insertIssued |-> FALSE, row |-> None]
        ELSE IF author = None
        THEN [kind |-> "notLoggedIn", insertIssued |-> FALSE, row |-> None]
        ELSE IF backendFails THEN [kind |-> "error", insertIssued |-> TRUE, row |-> None]
        ELSE IF input.slug \in StoredSlugs(rows)
        THEN [kind |-> "slugTaken", insertIssued |-> TRUE, row |-> None]
        ELSE [kind |-> "ok", insertIssued |-> TRUE,
              row |-> Some(InsertedRow(nextId, AddPayload(input, author[1], now), now))]

\* the messages of setErr
TitleRequired == <<"T">>
BodyRequired == <<"B">>
SlugExists == <<"S">>
Pretty == <<"F">>

\* e.message of what addPost throws, word by word: the error of getUser, the
\* Error addPost makes, the error of a failed insert, the unique violation of
\* the column slug
RawMessage(kind) ==
    CASE kind = "slugTaken" ->
             <<"duplicate", "key", "value", "violates", "unique", "constraint",
               "posts_slug_key">>
      [] kind = "notLoggedIn" -> <<"Not", "logged", "in.">>
      [] OTHER -> <<"Failed", "to", "fetch">>

\* msg.includes(word)
Includes(msg, word) == \E i \in 1..Len(msg) : msg[i] = word

\* prettyError(e): a friendlier text for four known failures, e.message for
\* the others
prettyError(msg) ==
    IF Includes(msg, "row-level") THEN <<"Upload", "blocked">>
    ELSE IF Includes(msg, "bucket") THEN <<"Storage", "bucket", "not", "found.">>
    ELSE IF Includes(msg, "not-null") THEN <<"A", "required", "field", "is", "missing.">>
    ELSE IF Includes(msg, "payload") THEN <<"Image", "is", "too", "large.">>
    ELSE msg

\* the catch of onSave without its test for posts_slug_key
SaveErrorGeneric(msg) == prettyError(msg)

\* the catch of onSave: the text it hands to setErr
SaveError(msg) ==
    IF Includes(msg, "posts_slug_key") THEN SlugExists ELSE prettyError(msg)

\* the route changes to /write
WrOpen ==
    /\ NoViewMounted
    /\ authUser # None
    /\ wr' = [WrUnmounted EXCEPT !.mounted = TRUE]
    /\ UNCHANGED <<rows, nextId, bucket, now, authUser, ra, lastAdd, home, ep, pvVars, tocVars,
                   viewVars, loadVars>>

\* the route changes away from /write; the author does not leave while a
\* save is running
WrClose ==
    /\ wr.mounted
    /\ wr.awaiting = "none"
    /\ wr' = WrUnmounted
    /\ UNCHANGED <<rows, nextId, bucket, now, authUser, ra, lastAdd, home, ep, pvVars, tocVars,
                   viewVars, loadVars>>

\* the author types a title and a body
WrType(title, body) ==
    /\ wr.mounted
    /\ ~wr.saving
    /\ wr' = [wr EXCEPT !.title = title, !.body = body]
    /\ UNCHANGED <<rows, nextId, bucket, now, authUser, ra, lastAdd, home, ep, pvVars, tocVars,
                   viewVars, loadVars>>

\* onPickFiles: k images are added to pending, which keeps twelve at most
WrPick(k) ==
    /\ wr.mounted
    /\ ~wr.saving
    /\ wr.pending + k <= MaxPending
    /\ wr' = [wr EXCEPT !.pending = IF wr.pending + k < PendingCap
                                    THEN wr.pending + k ELSE PendingCap]
    /\ UNCHANGED <<rows, nextId, bucket, now, authUser, ra, lastAdd, home, ep, pvVars, tocVars,
                   viewVars, loadVars>>

\* removePending(i)
WrRemovePending ==
    /\ wr.mounted
    /\ ~wr.saving
    /\ wr.pending > 0
    /\ wr' = [wr EXCEPT !.pending = wr.pending - 1]
    /\ UNCHANGED <<rows, nextId, bucket, now, authUser, ra, lastAdd, home, ep, pvVars, tocVars,
                   viewVars, loadVars>>

\* onSave awaits uploadBlogImage(file, folder): a name is drawn, the stage
\* and the step are shown
AwaitUpload(state, call, stage) ==
    [state EXCEPT !.awaiting = call, !.stage = Some(stage), !.step = @ + 1,
                  !.uploads = @ + 1, !.names = @ + 1]

\* onSave awaits addPost(...)
AwaitInsert(state) ==
    [state EXCEPT !.awaiting = "insert", !.stage = Some("saving"), !.step = @ + 1,
                  !.inserts = @ + 1]

\* the catch of onSave without its finally
CaughtStillSaving(state, msg) ==
    [state EXCEPT !.err = Some(msg), !.stage = None, !.awaiting = "none",
                  !.failedAt = state.awaiting]

\* the catch and the finally of onSave: the awaited call threw
Caught(state, msg) ==
    [state EXCEPT !.err = Some(msg), !.stage = None, !.saving = FALSE,
                  !.awaiting = "none", !.failedAt = state.awaiting]

\* the Publish button (disabled while saving): onSave up to its first await,
\* or to the return of a missing title or body
WrSave ==
    LET cleanTitle == Trim(wr.title)
        cleanBody == Trim(JoinLines(wr.body))
        hasImages == wr.pending > 0
        reset == [wr EXCEPT !.err = None, !.stage = None, !.step = 0, !.totalSteps = 0,
                            !.uploads = 0, !.inserts = 0, !.failedAt = "none"]
        started == [reset EXCEPT !.saving = TRUE,
                                 !.cleanTitle = cleanTitle, !.cleanBody = cleanBody,
                                 !.slug = SlugOrStamp(cleanTitle, now),
                                 !.batch = wr.pending,
                                 !.totalSteps = (IF hasImages THEN wr.pending + 1 ELSE 0) + 1,
                                 !.cover_path = None, !.image_paths = <<>>]
    IN  /\ wr.mounted
        /\ ~wr.saving
        /\ nextId <= MaxPosts
        /\ wr.names + wr.pending + 1 <= MaxNames
        /\ wr' = IF cleanTitle = <<>> THEN [reset EXCEPT !.err = Some(TitleRequired)]
                 ELSE IF cleanBody = <<>> THEN [reset EXCEPT !.err = Some(BodyRequired)]
                 ELSE IF hasImages THEN AwaitUpload(started, "cover", "cover")
                 ELSE AwaitInsert(started)
        /\ UNCHANGED <<rows, nextId, bucket, now, authUser, ra, lastAdd, home, ep, pvVars, tocVars,
                       viewVars, loadVars>>

\* the upload onSave awaits settles: it threw, or the file is stored and
\* onSave goes on to the next image, or to addPost after the last
WrUploadDone(uploadFails) ==
    LET folder == IF wr.awaiting = "cover" THEN "covers" ELSE "posts"
        path == WritePath(folder, wr.names)
        paths == Append(wr.image_paths, path)
    IN  /\ wr.awaiting \in {"cover", "image"}
        /\ IF uploadFails
           THEN /\ wr' = Caught(wr, Pretty)
                /\ UNCHANGED bucket
           ELSE /\ bucket' = bucket \cup {path}
                /\ wr' = IF wr.awaiting = "cover"
                         THEN AwaitUpload([wr EXCEPT !.cover_path = Some(path)], "image", "image")
                         ELSE IF Len(paths) < wr.batch
                         THEN AwaitUpload([wr EXCEPT !.image_paths = paths], "image", "image")
                         ELSE AwaitInsert([wr EXCEPT !.image_paths = paths])
        /\ UNCHANGED <<rows, nextId, now, authUser, ra, lastAdd, home, ep, pvVars, tocVars,
                       viewVars, loadVars>>

\* addPost settles: it threw, or the row is stored, pending is emptied and
\* nav goes to /post/id: Write unmounts, Post mounts and its effects load the
\* post and the post list and count the view
WrInsertDone(userErr, backendFails, writeFails) ==
    LET input == [title |-> wr.cleanTitle, slug |-> wr.slug, excerpt |-> None,
                  body_md |-> wr.body, cover_path |-> wr.cover_path,
                  image_paths |-> Some(wr.image_paths), status |-> Some("published")]
        res == AddPostResult(input, userErr, backendFails)
    IN  /\ wr.awaiting = "insert"
        /\ IF res.kind = "ok"
           THEN /\ rows' = [rows EXCEPT ![nextId] = res.row]
                /\ nextId' = nextId + 1
                /\ lastAdd' = Some([kind |-> "ok", insertIssued |-> TRUE,
                                     image_paths |-> normalizeRow(res.row[1]).image_paths])
                /\ wr' = WrUnmounted
                /\ pvId' = Some(nextId)
                /\ pvReqs' = {[r EXCEPT !.alive = FALSE] : r \in pvReqs}
                                 \cup {[id |-> nextId, alive |-> TRUE]}
                /\ pvOutcome' = None
                /\ Commit(None, TRUE, None)
                /\ Bumped(viewStore, nextId, writeFails)
                /\ loads' = loads \cup {Load("postList", 0)}
           ELSE /\ wr' = Caught(wr, SaveError(RawMessage(res.kind)))
                /\ lastAdd' = Some([kind |-> res.kind,
                                     insertIssued |-> res.insertIssued, image_paths |-> None])
                /\ UNCHANGED <<rows, nextId, pvVars, tocVars, viewVars, loads>>
        /\ UNCHANGED <<bucket, now, authUser, ra, home, ep, homeVideos, pvAllPosts, lastAnswer>>

-----------------------------------------------------------------------------
(* Specifications *)

vars == <<rows, nextId, bucket, now, authUser, ra, lastAdd, home, ep, pvPost, pvLoading, pvErr, pvId, pvReqs, pvOutcome,
          slugCounts, headingIds, renders, viewStore, bumps, lastBump,
          loads, homeVideos, pvAllPosts, lastAnswer, wr>>

\* a stored post with a given body, written by addPost
SampleRow(id, body) ==
    NewRow(id, "u1", <<"A">>, NatToStr(id), None, Some(body), None, Some(<<>>),
           "published", Some(0), 0)

\* nothing mounted, nobody signed in
\* the browser's localStorage before the site was ever opened
StoreUntouched ==
    /\ viewStore = None
    /\ bumps = [i \in PostIds |-> 0]
    /\ lastBump = None

\* the browser's localStorage once /post/id was opened, as the first page ever
StoreAfterOpening(id) ==
    LET b == bumpView(None, id, FALSE)
    IN  /\ viewStore = b.store
        /\ bumps = [i \in PostIds |-> IF i = id THEN 1 ELSE 0]
        /\ lastBump = Some([id |-> id, before |-> None, writeFailed |-> FALSE,
                            raised |-> b.raised, ended |-> b.ended])

\* no view is mounted
ScreensIdle ==
    /\ home = None
    /\ homeVideos = None
    /\ loads = {}
    /\ pvAllPosts = <<>>
    /\ lastAnswer = None
    /\ ep = EpDefaults
    /\ wr = WrDefaults
    /\ ra = RaDefaults
    /\ pvId = None
    /\ pvPost = None
    /\ pvLoading = TRUE
    /\ pvErr = None
    /\ pvReqs = {}
    /\ pvOutcome = None
    /\ slugCounts = NoCounts
    /\ headingIds = <<>>
    /\ renders = 0

ViewsIdle == StoreUntouched /\ ScreensIdle

\* The repository over an empty table: posts are created, edited, deleted
\* and listed
Init ==
    /\ rows = [i \in PostIds |-> None]
    /\ nextId = 1
    /\ bucket = {}
    /\ now = 0
    /\ authUser = None
    /\ lastAdd = None
    /\ ViewsIdle

\* what the authoring flow passes to addPost, and the status left out
AddInputs ==
    [title : {<<"A">>}, slug : {<<"a">>, <<"2">>}, excerpt : {None},
     body_md : {<<>>}, cover_path : {None}, image_paths : {None},
     status : {None, Some("draft"), Some("published")}]

Statuses == {"draft", "published"}
Minutes == 0..(MaxTime \div TicksPerMinute)
DateInputs == {None} \cup {Some(m) : m \in Minutes}

Next ==
    \/ Login
    \/ Logout
    \/ Tick
    \/ \E input \in AddInputs, userErr, fails \in BOOLEAN : AddPost(input, userErr, fails)
    \/ \E fails \in BOOLEAN : HomeOpen(fails)
    \/ HomeClose
    \/ \E id \in PostIds, fails \in BOOLEAN : EpOpen(id, fails)
    \/ EpClose
    \/ \E v \in Statuses : EpSet("status", v)
    \/ \E v \in DateInputs : EpSet("publishedAtLocal", v)
    \/ \E fails \in BOOLEAN : EpSave(fails)
    \/ \E fails \in BOOLEAN : EpDelete(fails)

Spec == Init /\ [][Next]_vars

\* The Post view showing a post of any body, after its first render
InitToc ==
    \E b \in Bodies :
        /\ rows = [i \in PostIds |-> IF i = 1 THEN Some(SampleRow(1, b)) ELSE None]
        /\ nextId = 2
        /\ bucket = {}
        /\ now = 0
        /\ authUser = None
        /\ lastAdd = None
        /\ home = None
        /\ ep = EpDefaults
        /\ wr = WrDefaults
        /\ ra = RaDefaults
        /\ pvId = Some(1)
        /\ pvPost = Some(normalizeRow(SampleRow(1, b)))
        /\ pvLoading = FALSE
        /\ pvErr = None
        /\ pvReqs = {}
        /\ pvOutcome = Some([failed |-> FALSE, hadRow |-> TRUE, kind |-> "row"])
        /\ slugCounts = RenderBody(NoCounts, b).counts
        /\ headingIds = RenderBody(NoCounts, b).ids
        /\ renders = 1
        /\ StoreAfterOpening(1)
        /\ homeVideos = None
        /\ loads = {}
        /\ \E list \in loadPosts(rows) : pvAllPosts = list
        /\ lastAnswer = None

NextToc == RenderPost

SpecToc == InitToc /\ [][NextToc]_vars

\* The Post view over a store of any rows
SampleBodies == {<<>>, <<HeadingLine(<<"A", "!">>)>>}

InitView ==
    /\ \E stored \in [PostIds -> {None} \cup {Some(b) : b \in SampleBodies}] :
          rows = [i \in PostIds |->
                    IF stored[i] = None THEN None ELSE Some(SampleRow(i, stored[i][1]))]
    /\ nextId = MaxPosts + 1
    /\ bucket = {}
    /\ now = 0
    /\ authUser = None
    /\ lastAdd = None
    /\ ViewsIdle

NextView ==
    \/ \E id \in PostIds, writeFails \in BOOLEAN : PvOpen(id, writeFails)
    \/ PvClose
    \/ \E req \in pvReqs, fails \in BOOLEAN : PvResponse(req, fails)
    \/ RenderPost

SpecView == InitView /\ [][NextView]_vars

\* The edit flow over one stored post, its author signed in
EditRows ==
    {NewRow(1, "u1", <<"A">>, <<"a">>, Some(<<"e">>), Some(<<>>), cover,
            Some(<<Path(0, "other", 0, 1)>>), sp[1], sp[2], 0) :
        cover \in {None, Some(Path(1, "cover", 0, 0))},
        sp \in {<<"draft", None>>, <<"published", Some(1)>>}}

\* the files a row names
FilesOf(r) ==
    (IF r.cover_path = None THEN {} ELSE {r.cover_path[1]})
    \cup {r.image_paths[1][k] : k \in 1..Len(r.image_paths[1])}

InitEdit ==
    /\ \E r \in EditRows :
          /\ rows = [i \in PostIds |-> IF i = 1 THEN Some(r) ELSE None]
          /\ bucket = FilesOf(r)
    /\ nextId = 2
    /\ now = MaxTime - 1
    /\ authUser = Some("u1")
    /\ lastAdd = None
    /\ ViewsIdle

NextEdit ==
    \/ Tick
    \/ \E id \in PostIds, fails \in BOOLEAN : EpOpen(id, fails)
    \/ EpClose
    \/ \E v \in Statuses : EpSet("status", v)
    \/ \E v \in DateInputs : EpSet("publishedAtLocal", v)
    \/ \E fails \in BOOLEAN : EpSave(fails)
    \/ \E uploadFails, updateFails, removeFails \in BOOLEAN :
          EpReplaceCover(uploadFails, updateFails, removeFails)
    \/ \E n \in 1..MaxFiles, updateFails \in BOOLEAN : \E failAt \in 0..n :
          EpAddImages(n, failAt, updateFails)
    \/ \E k \in 1..Len(ep.imagePaths), updateFails, removeFails \in BOOLEAN :
          EpRemoveImage(ep.imagePaths[k], updateFails, removeFails)
    \/ \E fails \in BOOLEAN : EpDelete(fails)

SpecEdit == InitEdit /\ [][NextEdit]_vars

\* The Home view over a table of any rows its columns admit (published_at is
\* nullable), whoever wrote them
ListRows(i) ==
    {NewRow(i, "u1", <<"A">>, NatToStr(i), None, Some(<<>>), None, Some(<<>>),
            st, pub, created) :
        st \in Statuses,
        pub \in {None, Some(1), Some(2)},
        created \in {0, 1}}

InitList ==
    /\ \E t \in [PostIds -> BOOLEAN] :
          \E r1 \in ListRows(1), r2 \in ListRows(2) :
             rows = [i \in PostIds |->
                        IF ~t[i] THEN None ELSE IF i = 1 THEN Some(r1) ELSE Some(r2)]
    /\ nextId = MaxPosts + 1
    /\ bucket = {}
    /\ now = MaxTime
    /\ authUser = None
    /\ lastAdd = None
    /\ ViewsIdle

NextList ==
    \/ \E fails \in BOOLEAN : HomeOpen(fails)
    \/ HomeClose

SpecList == InitList /\ [][NextList]_vars

\* The reads (Home, Post) and addPost over a table holding one row whose
\* image_paths is anything the backend may answer
RawImagePaths ==
    {None, Absent, Some(<<>>), Some(<<Path(0, "other", 0, 1)>>)} \cup NonArrays

ReadRows ==
    {NewRow(1, "u1", <<"A">>, <<"1">>, None, Some(<<>>), None, images, st, Some(0), 0) :
        images \in RawImagePaths, st \in Statuses}

InitRead ==
    /\ \E r \in ReadRows : rows = [i \in PostIds |-> IF i = 1 THEN Some(r) ELSE None]
    /\ nextId = 2
    /\ bucket = {}
    /\ now = 0
    /\ authUser = Some("u1")
    /\ lastAdd = None
    /\ ViewsIdle

NextRead ==
    \/ \E input \in AddInputs, userErr, fails \in BOOLEAN : AddPost(input, userErr, fails)
    \/ \E fails \in BOOLEAN : HomeOpen(fails)
    \/ HomeClose
    \/ \E id \in PostIds, writeFails \in BOOLEAN : PvOpen(id, writeFails)
    \/ PvClose
    \/ \E req \in pvReqs, fails \in BOOLEAN : PvResponse(req, fails)
    \/ RenderPost

SpecRead == InitRead /\ [][NextRead]_vars

\* The view counts: two published posts, and a browser whose localStorage
\* holds for the key nothing, the empty text, an object, or something else
StoredTexts ==
    { <<>>,
      <<Tok("{"), Tok("}")>>,
      <<Tok("{")>>,
      <<Tok("null")>>,
      <<Tok("7")>>,
      <<Tok("["), Tok("]")>> }

InitViews ==
    /\ rows = [i \in PostIds |-> Some(SampleRow(i, <<>>))]
    /\ nextId = MaxPosts + 1
    /\ bucket = {}
    /\ now = 0
    /\ authUser = None
    /\ lastAdd = None
    /\ ScreensIdle
    /\ viewStore \in {None} \cup {Some(t) : t \in StoredTexts}
    /\ bumps = [i \in PostIds |-> 0]
    /\ lastBump = None

NextViews ==
    \/ \E fails \in BOOLEAN : HomeOpen(fails)
    \/ HomeClose
    \/ \E id \in PostIds, writeFails, again \in BOOLEAN : HomeOpenPost(id, writeFails, again)
    \/ \E id \in PostIds, writeFails \in BOOLEAN : PvOpen(id, writeFails)
    \/ PvClose
    \/ \E req \in pvReqs, fails \in BOOLEAN : PvResponse(req, fails)

SpecViews == InitViews /\ [][NextViews]_vars

\* The most-read card: Home has loaded the k published posts there are,
\* newest first, and the browser holds counts for some ids
MaxRanked == 9

RankedIds == 1..MaxRanked

RankedRow(i) ==
    NewRow(i, "u1", <<"A">>, NatToStr(i), None, Some(<<>>), None, Some(<<>>),
           "published", Some(MaxRanked - i), 0)

\* the counts a browser may hold: none, rising or falling with the id, ties
CountPatterns ==
    { [i \in RankedIds |-> 0],
      [i \in RankedIds |-> i],
      [i \in RankedIds |-> MaxRanked - i],
      [i \in RankedIds |-> i % 2],
      [i \in RankedIds |-> i % 3],
      [i \in RankedIds |-> IF i = MaxRanked THEN 1 ELSE 0] }

\* the ids with a count, lowest first
RECURSIVE CountedUpTo(_, _)
CountedUpTo(c, n) ==
    IF n = 0 THEN <<>>
    ELSE CountedUpTo(c, n - 1) \o (IF c[n] > 0 THEN <<<<n, c[n]>>>> ELSE <<>>)

RankedStores ==
    {None, Some(<<Tok("{")>>), Some(<<Tok("null")>>), Some(<<Tok("7")>>),
     Some(<<Tok("["), Tok("]")>>)}
        \cup {Some(JSONstringify(JsObject(CountedUpTo(c, MaxRanked)))) : c \in CountPatterns}

LoadedCounts == {0, 1, 2, MostReadShown, MaxRanked}

\* the posts whose links are clicked
ClickedIds == {1, 2, MaxRanked}

InitRank ==
    /\ nextId = MaxRanked + 1
    /\ bucket = {}
    /\ now = 0
    /\ authUser = None
    /\ lastAdd = None
    /\ \E k \in LoadedCounts :
          /\ rows = [i \in RankedIds |-> IF i <= k THEN Some(RankedRow(i)) ELSE None]
          /\ home = Some([posts |-> [i \in 1..k |-> normalizeRow(RankedRow(i))],
                          loading |-> FALSE, error |-> None])
    /\ homeVideos = Some([videos |-> HomeVideoList, loading |-> FALSE, error |-> None])
    /\ loads = {}
    /\ pvAllPosts = <<>>
    /\ lastAnswer = None
    /\ ep = EpDefaults
    /\ wr = WrDefaults
    /\ ra = RaDefaults
    /\ pvId = None
    /\ pvPost = None
    /\ pvLoading = TRUE
    /\ pvErr = None
    /\ pvReqs = {}
    /\ pvOutcome = None
    /\ slugCounts = NoCounts
    /\ headingIds = <<>>
    /\ renders = 0
    /\ viewStore \in RankedStores
    /\ bumps = [i \in RankedIds |-> 0]
    /\ lastBump = None

NextRank ==
    \/ \E id \in ClickedIds, writeFails \in BOOLEAN : HomeBumpAndTick(id, writeFails)
    \/ \E id \in ClickedIds, writeFails, again \in BOOLEAN : HomeOpenPost(id, writeFails, again)
    \/ HomeClose
    \/ PvClose
    \/ \E req \in pvReqs, fails \in BOOLEAN : PvResponse(req, fails)

SpecRank == InitRank /\ [][NextRank]_vars

\* The loads: two published posts, a signed-in author who goes from view to
\* view and from id to id while answers are on their way
InitAsync ==
    /\ rows = [i \in PostIds |-> Some(SampleRow(i, <<>>))]
    /\ nextId = MaxPosts + 1
    /\ bucket = {}
    /\ now = 0
    /\ authUser = Some("u1")
    /\ lastAdd = None
    /\ ViewsIdle

NextAsync ==
    \/ HomeMount
    \/ HomeClose
    \/ \E req \in loads, fails \in BOOLEAN : HomeResponse(req, fails)
    \/ \E req \in loads, fails \in BOOLEAN : HomeVideosResponse(req, fails)
    \/ \E id \in PostIds : PvOpen(id, FALSE)
    \/ PvClose
    \/ \E req \in pvReqs, fails \in BOOLEAN : PvResponse(req, fails)
    \/ \E req \in loads, fails \in BOOLEAN : PostListResponse(req, fails)
    \/ \E id \in PostIds : EpMount(id)
    \/ EpClose
    \/ \E req \in loads, fails \in BOOLEAN : EpResponse(req, fails)

SpecAsync == InitAsync /\ [][NextAsync]_vars

\* The Write view: one post is stored, the author is signed in, writes a
\* post with up to MaxPending images and publishes it; uploads and the insert
\* may fail
WriteTitles == {<<>>, <<"A">>, <<"1">>, <<"!">>}

WriteBodies == {<<>>, <<<<"a">>>>}

InitWrite ==
    /\ rows = [i \in PostIds |-> IF i = 1 THEN Some(SampleRow(1, <<>>)) ELSE None]
    /\ nextId = 2
    /\ bucket = {}
    /\ now = 0
    /\ authUser = Some("u1")
    /\ lastAdd = None
    /\ ViewsIdle

NextWrite ==
    \/ WrOpen
    \/ WrClose
    \/ \E title \in WriteTitles, body \in WriteBodies : WrType(title, body)
    \/ \E k \in 1..MaxPending : WrPick(k)
    \/ WrRemovePending
    \/ WrSave
    \/ \E fails \in BOOLEAN : WrUploadDone(fails)
    \/ \E userErr, fails \in BOOLEAN : WrInsertDone(userErr, fails, FALSE)
    \/ PvClose

SpecWrite == InitWrite /\ [][NextWrite]_vars

\* The bodies: the author writes posts in Write, edits their bodies in the
\* edit page, and reads them in Home and in the Post view
BodyTexts == {<<<<"a">>>>, <<<<"b">>>>}

InitBody ==
    /\ rows = [i \in PostIds |-> None]
    /\ nextId = 1
    /\ bucket = {}
    /\ now = 0
    /\ authUser = Some("u1")
    /\ lastAdd = None
    /\ ViewsIdle

NextBody ==
    \/ WrOpen
    \/ WrClose
    \/ \E title \in {<<"A">>, <<"b">>}, body \in BodyTexts : WrType(title, body)
    \/ WrSave
    \/ \E fails \in BOOLEAN : WrInsertDone(FALSE, fails, FALSE)
    \/ \E id \in PostIds : PvOpen(id, FALSE)
    \/ \E req \in pvReqs : PvResponse(req, FALSE)
    \/ PvClose
    \/ \E id \in PostIds : EpOpen(id, FALSE)
    \/ EpClose
    \/ \E v \in BodyTexts \cup {<<>>} : EpSet("bodyMd", v)
    \/ \E fails \in BOOLEAN : EpSave(fails)
    \/ HomeOpen(FALSE)
    \/ HomeClose

SpecBody == InitBody /\ [][NextBody]_vars

\* RequireAuth: the routes /write and /edit/:id are entered and left, signed
\* in or not, while the session comes and goes
InitAuth ==
    /\ rows = [i \in PostIds |-> None]
    /\ nextId = 1
    /\ bucket = {}
    /\ now = 0
    /\ authUser \in {None, Some("u1")}
    /\ lastAdd = None
    /\ ViewsIdle

NextAuth ==
    \/ \E route \in {"write", "edit"} : RaMount(route)
    \/ RaSessionRead
    \/ RaSessionResult
    \/ RaInitialNote
    \/ \E user \in {None, Some("u1")} : RaAuthChange(user)
    \/ RaRedirect
    \/ RaLeave
    \/ Tick

SpecAuth == InitAuth /\ [][NextAuth]_vars

\* Write with the session ending under it: the author entered /write signed
\* in, and publishes, with or without images, before or after the session
\* ended
InitAnon == InitWrite

NextAnon ==
    \/ NextWrite
    \/ SessionEnds

SpecAnon == InitAnon /\ [][NextAnon]_vars

\* The slug of Write: the author types a title, short or long, with or
\* without characters a slug keeps, and publishes it at any time
HelloWorld == <<"H", "e", "l", "l", "o", " ", "W", "o", "r", "l", "d">>

\* n letters, then the characters of tail
LongTitle(n, tail) == [i \in 1..n |-> "a"] \o tail

SlugTitles ==
    { HelloWorld, <<"A">>, <<"!">>, <<"'">>, <<" ", "a", "'", "b", " ", "!", "-", "1", " ">>,
      LongTitle(SlugCap, <<>>), LongTitle(SlugCap - 1, <<" ", "b">>),
      LongTitle(SlugCap + 1, <<"b">>) }

InitSlug == InitWrite

NextSlug ==
    \/ WrOpen
    \/ WrClose
    \/ \E title \in SlugTitles : WrType(title, <<<<"a">>>>)
    \/ WrSave
    \/ \E fails \in BOOLEAN : WrInsertDone(FALSE, fails, FALSE)
    \/ PvClose
    \/ Tick

SpecSlug == InitSlug /\ [][NextSlug]_vars

\* the reading-time bodies: some markup in front of n one-letter words of
\* prose, WordsPerLine to a line
WordsPerLine == 50

WordLine(m) == [i \in 1..(2 * m - 1) |-> IF i % 2 = 1 THEN "a" ELSE " "]

ProseLines(n) ==
    [k \in 1..((n + WordsPerLine - 1) \div WordsPerLine) |->
        WordLine(IF n - (k - 1) * WordsPerLine < WordsPerLine
                 THEN n - (k - 1) * WordsPerLine ELSE WordsPerLine)]

ImageLine == <<"!", "[", "a", " ", "a", "]", "(", "u", ")">>

\* the markup, with the words it adds to the prose
Markups ==
    { [name |-> "none", lines |-> <<>>, words |-> 0],
      [name |-> "fence", lines |-> <<FenceLine, WordLine(3), FenceLine>>, words |-> 0],
      [name |-> "image", lines |-> <<ImageLine>>, words |-> 0],
      [name |-> "fenceAndImage",
       lines |-> <<FenceLine, WordLine(3), FenceLine, ImageLine>>, words |-> 0],
      [name |-> "heading", lines |-> <<HeadingLine(<<"a">>)>>, words |-> 1],
      [name |-> "bullet", lines |-> <<<<"-", " ", "a">>>>, words |-> 1],
      [name |-> "link", lines |-> <<<<"[", "a", " ", "a", "]", "(", "u", ")">>>>, words |-> 2],
      [name |-> "code", lines |-> <<<<Backquote, "a", " ", "a", Backquote, " ", "a">>>>, words |-> 1] }

WordCounts == {0, 1, 50, 99, 100, 199, 200, 299, 300, 301, 400, 499, 500, 700}

TimeBody(n, d) == d.lines \o ProseLines(n)

InitTime ==
    \E n \in WordCounts, d \in Markups :
        LET b == TimeBody(n, d)
        IN  /\ rows = [i \in PostIds |-> IF i = 1 THEN Some(SampleRow(1, b)) ELSE None]
            /\ nextId = 2
            /\ bucket = {}
            /\ now = 0
            /\ authUser = None
            /\ lastAdd = None
            /\ home = None
            /\ ep = EpDefaults
            /\ wr = WrDefaults
            /\ ra = RaDefaults
            /\ pvId = Some(1)
            /\ pvPost = Some(normalizeRow(SampleRow(1, b)))
            /\ pvLoading = FALSE
            /\ pvErr = None
            /\ pvReqs = {}
            /\ pvOutcome = Some([failed |-> FALSE, hadRow |-> TRUE, kind |-> "row"])
            /\ slugCounts = RenderBody(NoCounts, b).counts
            /\ headingIds = RenderBody(NoCounts, b).ids
            /\ renders = 1
            /\ StoreAfterOpening(1)
            /\ homeVideos = None
            /\ loads = {}
            /\ \E list \in loadPosts(rows) : pvAllPosts = list
            /\ lastAnswer = None

NextTime == RenderPost

SpecTime == InitTime /\ [][NextTime]_vars

-----------------------------------------------------------------------------
(* Claims *)

TocIds == [i \in 1..Len(toc) |-> toc[i].id]

\* C1: for every post body, the id the Post view's renderer gives the i-th
\* rendered h2/h3 is the id of the i-th item of extractToc of that body, so
\* every link of the table of contents targets a heading on screen.
C1_RenderedIdsMatchToc == PostScreen = "post" => headingIds = TocIds

\* C2: no two items of one table of contents share an id.
C2_TocIdsDistinct ==
    \A i, j \in 1..Len(toc) : i # j => toc[i].id # toc[j].id

\* C3: in document order, the first heading of base slug s gets the anchor s
\* and the k-th one (k >= 2) gets s-k; three headings of base slugs s, s, t
\* get s, s-2, t.
C3_SuffixRule ==
    /\ \A i \in 1..Len(toc) :
          LET base == SlugBase(toc[i].text)
              k == Cardinality({j \in 1..i : SlugBase(toc[j].text) = base})
          IN  toc[i].id = IF k = 1 THEN base ELSE base \o <<"-">> \o NatToStr(k)
    /\ bodyText = <<HeadingLine(<<"A", "!">>), HeadingLine(<<"A", "!">>), HeadingLine(<<"2">>)>>
          => TocIds = << <<"a">>, <<"a", "-", "2">>, <<"2">> >>

C3_Witness ==
    /\ Len(toc) = 3
    /\ TocIds = << <<"a">>, <<"a", "-", "2">>, <<"2">> >>

\* C4: a save changes the published_at a post already has only when the user
\* entered a value in the date input; saving with the input left as the page
\* loaded it (status published or not) keeps the stored published_at.
C4_PublishedAtPreserved ==
    [][\A id \in PostIds :
          (/\ rows[id] # None
           /\ rows'[id] # None
           /\ rows[id][1].published_at # None
           /\ rows'[id][1].published_at # rows[id][1].published_at)
          => ep.dateTyped]_vars

\* C5: the row addPost stores has the status supplied, or draft when none is,
\* and has published_at = the time of the call exactly when that status is
\* published, and null otherwise.
C5_CreateStatusAndStamp ==
    [][\A input \in AddInputs : \A userErr, fails \in BOOLEAN :
          (AddPost(input, userErr, fails) /\ nextId' # nextId)
          => LET r == rows'[nextId][1]
                 wanted == IF input.status = None THEN "draft" ELSE input.status[1]
             IN  /\ rows[nextId] = None
                 /\ r.status = wanted
                 /\ r.published_at = IF wanted = "published" THEN <<now>> ELSE <<>>]_vars

\* two posts were created: one with the status left out or draft, stored as a
\* draft without published_at, and one published, stamped with a call time
C5_Witness ==
    /\ lastAdd # None /\ lastAdd[1].kind = "ok"
    /\ nextId = 3
    /\ rows[1] # None /\ rows[1][1].status = "draft" /\ rows[1][1].published_at = <<>>
    /\ rows[2] # None /\ rows[2][1].status = "published"
    /\ rows[2][1].created_at > 0
    /\ rows[2][1].published_at = <<rows[2][1].created_at>>

C7_ListIsExactlyPublished ==
    [][(home = None /\ home' # None /\ home'[1].error = None)
       => LET posts == home'[1].posts
              published == {i \in PostIds : rows[i] # None /\ rows[i][1].status = "published"}
          IN  /\ {posts[k].id : k \in 1..Len(posts)} = published
              /\ Len(posts) = Cardinality(published)]_vars

\* the list holds one post while two are stored: the other is a draft that
\* was published before (its published_at is the odd tick it was stamped with
\* at creation, which no date input yields)
C7_Witness ==
    /\ home # None /\ home[1].error = None
    /\ Len(home[1].posts) = 1
    /\ \E i \in PostIds :
          /\ rows[i] # None
          /\ rows[i][1].status = "draft"
          /\ rows[i][1].created_at = 1
          /\ rows[i][1].published_at = <<1>>
          /\ home[1].posts[1].id # i

\* the date that positions a post: published_at, or created_at without one
ListKey(p) == IF p.published_at = None THEN p.created_at ELSE p.published_at[1]

\* C8: the list loadPosts answers is in descending order of published_at, a
\* post without published_at counting with its created_at.
C8_ListOrderedWithFallback ==
    (home # None /\ home[1].error = None)
    => \A i, j \in 1..Len(home[1].posts) :
          i < j => ListKey(home[1].posts[i]) >= ListKey(home[1].posts[j])

\* C9: getPost returns null, not an error, for an id with no row, and throws
\* only when the backend reports a failure; the Post view shows "Post not
\* found" for null and the error state only for a thrown error, never both.
C9_NotFoundIsNotAnError ==
    /\ pvOutcome # None =>
          LET o == pvOutcome[1]
          IN  /\ (o.kind = "error") <=> o.failed
              /\ (o.kind = "null") <=> (~o.failed /\ ~o.hadRow)
              /\ o.kind = "null" => PostScreen = "notfound" /\ pvErr = None
              /\ o.kind = "error" => PostScreen = "error"
    /\ PostScreen = "notfound" => pvOutcome # None /\ pvOutcome[1].kind = "null"
    /\ PostScreen = "error" => pvOutcome # None /\ pvOutcome[1].kind = "error"

C9_Witness ==
    /\ pvOutcome # None
    /\ pvOutcome[1].kind = "null"
    /\ PostScreen = "notfound"

\* the fields in which two versions of a row differ
ChangedFields(before, after) == {f \in DOMAIN before : before[f] # after[f]}

\* C10: a write of the edit page changes only the fields it sends: a cover
\* replacement only cover_path, adding or removing images only image_paths, a
\* save only the form's fields, with published_at among them only when the
\* date input holds a value or the post is published for the first time.
C10_UpdateMergesOnlyProvidedFields ==
    [][\A id \in PostIds :
          (rows[id] # None /\ rows'[id] # None /\ rows'[id] # rows[id])
          => LET changed == ChangedFields(rows[id][1], rows'[id][1])
             IN  /\ ep.id = <<id>>
                 /\ ep'.ok \in {<<"Saved">>, <<"Cover updated">>, <<"Added">>,
                                <<"Image removed">>}
                 /\ ep'.ok = <<"Cover updated">> => changed \subseteq {"cover_path"}
                 /\ ep'.ok \in {<<"Added">>, <<"Image removed">>}
                       => changed \subseteq {"image_paths"}
                 /\ ep'.ok = <<"Saved">>
                       => /\ changed \subseteq {"title", "excerpt", "body_md", "status",
                                                "cover_path", "image_paths",
                                                "published_at"}
                          /\ "published_at" \in changed
                                => \/ ep.publishedAtLocal # <<>>
                                   \/ /\ ep.status = "published"
                                      /\ ep.post # <<>>
                                      /\ ep.post[1].published_at = <<>>]_vars

\* the cover was replaced now, and the write left the row's excerpt, its
\* images and its published_at as they were stored
C10_Witness ==
    /\ ep.ok = <<"Cover updated">>
    /\ rows[1] # None
    /\ rows[1][1].cover_path = <<Path(1, "cover", now, 0)>>
    /\ rows[1][1].excerpt = <<<<"e">>>>
    /\ rows[1][1].image_paths = <<<<Path(0, "other", 0, 1)>>>>
    /\ rows[1][1].published_at = <<1>>
    /\ rows[1][1].body_md = <<>>

\* C11: a delete that removes a post's row also removes the files the row
\* names (cover_path and image_paths) from the bucket.
C11_DeleteCleansUpImages ==
    [][\A id \in PostIds :
          (rows[id] # None /\ rows'[id] = None)
          => FilesOf(rows[id][1]) \cap bucket' = {}]_vars

\* C12: every post the Home list holds, the post the Post view got from
\* getPost and the post addPost returned has a list as image_paths, the empty
\* one when the stored row has none, null, or a value that is no array.
C12_ImagePathsIsList ==
    /\ home # None =>
          \A k \in 1..Len(home[1].posts) :
             LET stored == rows[home[1].posts[k].id][1].image_paths
                 got == home[1].posts[k].image_paths
             IN  Len(got) = 1 /\ (Len(stored) # 1 => got = <<<<>>>>)
    /\ pvPost # None =>
          LET stored == rows[pvPost[1].id][1].image_paths
              got == pvPost[1].image_paths
          IN  Len(got) = 1 /\ (Len(stored) # 1 => got = <<<<>>>>)
    /\ (lastAdd # None /\ lastAdd[1].kind = "ok") => Len(lastAdd[1].image_paths) = 1

\* the Home list holds a post whose stored image_paths is a JSON value that
\* is no array, after an addPost call returned a post
C12_Witness ==
    /\ lastAdd # None /\ lastAdd[1].kind = "ok"
    /\ home # None
    /\ \E k \in 1..Len(home[1].posts) :
          /\ rows[home[1].posts[k].id][1].image_paths = <<"json", "string">>
          /\ home[1].posts[k].image_paths = <<<<>>>>

-----------------------------------------------------------------------------
\* C13: the reading time shown with a post is max(1, round(words / 200))
\* minutes, words being the whitespace-delimited words left once the Markdown
\* markup is stripped: fenced blocks, inline code and images count for
\* nothing, a heading, a bullet and a link count for their text. Under 300
\* words it is 1 minute (never less), and m minutes from 200m - 100 words up
\* to 200m + 99.
C13_ReadingTime ==
    \A n \in WordCounts, d \in Markups :
        (PostScreen = "post" /\ Len(bodyText) = Len(TimeBody(n, d))
            /\ bodyText = TimeBody(n, d))
        => LET w == n + d.words
               minutes == readingMinutes(bodyText)
           IN  /\ minutes >= 1
               /\ w < 300 => minutes = 1
               /\ \A m \in 2..4 :
                    (200 * m - 100 <= w /\ w < 200 * m + 100) => minutes = m

\* a 400-word post with a fenced block and an image is on screen, rendered
\* twice, and reads "2 min read"
C13_Witness ==
    /\ PostScreen = "post"
    /\ renders = 2
    /\ \E d \in Markups :
          /\ d.name = "fenceAndImage"
          /\ bodyText = TimeBody(400, d)
    /\ readingMinutes(bodyText) = 2

-----------------------------------------------------------------------------
\* C14: from a store with no entry for x, the bumpView(x) calls that ran to
\* their end, however they were interleaved with those of other ids, are the
\* count getViews() holds for x; an id never bumped to the end has no entry,
\* and the snapshot of a store never touched is the empty mapping.
C14_CountsAreBumps ==
    LET views == getViews(viewStore)
    IN  /\ views.type = "object" =>
              \A x \in PostIds :
                 Lookup(views, x) = IF bumps[x] = 0 THEN None ELSE Some(bumps[x])
        /\ (viewStore = None /\ lastBump = None) => views = EmptyObject

\* post 1 was opened, then post 2, then post 1 again: 1 has two views, 2 one
C14_Witness ==
    /\ lastBump # None
    /\ lastBump[1].id = 1
    /\ lastBump[1].before = Some(<<Tok("{"), Member(1, 1), Member(2, 1), Tok("}")>>)
    /\ getViews(viewStore) = JsObject(<<<<1, 2>>, <<2, 1>>>>)
    /\ bumps = [i \in PostIds |-> IF i = 1 THEN 2 ELSE IF i = 2 THEN 1 ELSE 0]

\* C15: getViews() always answers a mapping (the empty one when the stored
\* value is missing, unparseable, or JSON that is not an object), and the
\* render of Home that ranks the posts with it never throws.
C15_SnapshotIsMapping ==
    /\ getViews(viewStore).type = "object"
    /\ ~HomeCrashed

\* C16: bumpView raises nothing, and a call that did not run to its end
\* (reading, parsing or writing failed) left the stored value as it was.
C16_BumpFailsSilently ==
    lastBump # None =>
        /\ ~lastBump[1].raised
        /\ ~lastBump[1].ended => viewStore = lastBump[1].before

\* post 1 was counted once, and the next bumpView met a full storage
C16_Witness ==
    /\ lastBump # None
    /\ ~lastBump[1].ended
    /\ lastBump[1].writeFailed
    /\ lastBump[1].before = Some(<<Tok("{"), Member(1, 1), Tok("}")>>)
    /\ viewStore = lastBump[1].before

\* C17: a bumpView(id) that finds a stored value it cannot use as a mapping
\* starts from the empty mapping: when storage takes the write, the stored
\* count of id is 1 afterwards.
C17_ReadRepair ==
    (/\ lastBump # None
     /\ ~lastBump[1].writeFailed
     /\ LET parsed == ParseOrEmpty(lastBump[1].before)
        IN  parsed.threw \/ parsed.value.type # "object")
    => ViewCount(getViews(viewStore), lastBump[1].id) = 1

-----------------------------------------------------------------------------
-----------------------------------------------------------------------------
-----------------------------------------------------------------------------
\* C20: when a call of the create workflow of Write throws (the upload of
\* the cover, the upload of an image, addPost), the workflow stops there: the
\* step that failed changes neither the bucket nor the table, and afterwards
\* nothing is awaited, no upload was issued beyond the failed one and addPost
\* was called only if it is what failed, a message is shown, the files
\* uploaded before are still in the bucket, and saving is false.
C20_FailureStopsWorkflow ==
    /\ [](wr.failedAt # "none" =>
            /\ wr.awaiting = "none"
            /\ ~wr.saving
            /\ wr.err # None /\ wr.err[1] # <<>>
            /\ wr.failedAt = "cover" =>
                  wr.uploads = 1 /\ wr.inserts = 0 /\ wr.cover_path = None
            /\ wr.failedAt = "image" =>
                  /\ Len(wr.image_paths) < wr.batch
                  /\ wr.uploads = Len(wr.image_paths) + 2
                  /\ wr.inserts = 0
            /\ wr.failedAt = "insert" =>
                  /\ wr.uploads = (IF wr.batch > 0 THEN wr.batch + 1 ELSE 0)
                  /\ wr.inserts = 1
                  /\ lastAdd # None /\ lastAdd[1].kind # "ok"
            /\ wr.cover_path # None => wr.cover_path[1] \in bucket
            /\ \A k \in 1..Len(wr.image_paths) : wr.image_paths[k] \in bucket)
    /\ [][(wr.failedAt = "none" /\ wr'.failedAt # "none")
             => (bucket' = bucket /\ rows' = rows /\ nextId' = nextId)]_vars

\* two images were picked; the cover and the first image were uploaded, the
\* upload of the second image failed: two files stay in the bucket, no post
\* was inserted, the error is shown and the button is enabled again
C20_Witness ==
    /\ wr.mounted
    /\ wr.failedAt = "image"
    /\ wr.batch = 2
    /\ Len(wr.image_paths) = 1
    /\ wr.cover_path # None
    /\ Cardinality(bucket) = 2
    /\ wr.err = Some(Pretty)
    /\ ~wr.saving
    /\ rows[2] = None

-----------------------------------------------------------------------------
\* C21: publishing from Write a post whose title derives a slug some stored
\* post has stores no row; when the insert was refused for the slug, the
\* message shown is the one about the slug, not what prettyError makes of the
\* error; and no two stored posts ever share a slug.
C21_DuplicateSlugRejected ==
    /\ [](\A i, j \in PostIds :
            (i # j /\ rows[i] # None /\ rows[j] # None)
                => rows[i][1].slug # rows[j][1].slug)
    /\ [][(wr.awaiting = "insert" /\ wr'.awaiting # "insert"
              /\ wr.slug \in StoredSlugs(rows))
             => /\ rows' = rows
                /\ nextId' = nextId
                /\ wr'.failedAt = "insert"
                /\ ~wr'.saving
                /\ lastAdd'[1].kind # "ok"
                /\ lastAdd'[1].kind = "slugTaken"
                      => /\ wr'.err = Some(SlugExists)
                         /\ wr'.err # Some(prettyError(RawMessage("slugTaken")))]_vars

\* the stored post has the slug 1; the author publishes a post titled 1: the
\* insert is refused, Write stays mounted and shows the slug message
C21_Witness ==
    /\ wr.mounted
    /\ wr.cleanTitle = <<"1">>
    /\ wr.slug \in StoredSlugs(rows)
    /\ wr.failedAt = "insert"
    /\ lastAdd # None /\ lastAdd[1].kind = "slugTaken"
    /\ wr.err = Some(SlugExists)
    /\ rows[2] = None

-----------------------------------------------------------------------------
\* C22: the slug Write sends to addPost for a title that is not blank is not
\* empty, is made of lowercase letters, digits and hyphens with no two hyphens
\* in a row and none at either end, has 80 characters at most, and is the
\* same whenever the title is published.
C22_SlugUrlSafe ==
    wr.awaiting = "insert" =>
        /\ wr.cleanTitle # <<>>
        /\ wr.slug # <<>>
        /\ Len(wr.slug) <= SlugCap
        /\ \A i \in 1..Len(wr.slug) : IsLowerAlnum(wr.slug[i]) \/ wr.slug[i] \in {"-", "p", "s", "t"}
        /\ \A i \in 1..(Len(wr.slug) - 1) : ~(wr.slug[i] = "-" /\ wr.slug[i + 1] = "-")
        /\ wr.slug[1] # "-"
        /\ wr.slug[Len(wr.slug)] # "-"
        /\ \A t \in 0..MaxTime : SlugOrStamp(wr.cleanTitle, t) = wr.slug
        /\ wr.cleanTitle = HelloWorld
              => wr.slug = <<"h", "e", "l", "l", "o", "-", "w", "o", "r", "l", "d">>

-----------------------------------------------------------------------------
\* C23: however many times the Post view has rendered a body it still
\* shows, each rendered heading has the id the first render of that body gave
\* it.
C23_AnchorsStableAcrossRenders ==
    (PostScreen = "post" /\ renders >= 1)
        => headingIds = RenderBody(NoCounts, bodyText).ids

-----------------------------------------------------------------------------
\* C24: the edit page never shows an error and a success message together;
\* while it shows Saved the stored row is the one save got back; and a cover
\* replacement, an addition or a removal of images that ends with its success
\* message on a stored post has written the row: the stored row holds the
\* cover path, or the list of image paths, the handler sent.
C24_SuccessOnlyAfterWrite ==
    /\ [](ep.id # None => ~(ep.err # None /\ ep.ok # None))
    /\ []((ep.id # None /\ ep.ok = Some("Saved")) => rows[ep.id[1]] = ep.post)
    /\ [][(ep.id # None /\ ep'.id = ep.id /\ ep'.mediaOps = ep.mediaOps + 1
              /\ ep'.ok # None /\ rows[ep.id[1]] # None)
             => LET id == ep.id[1]
                IN  /\ rows'[id] # None
                    /\ ep'.ok = Some("Cover updated")
                          => rows'[id][1].cover_path = ep'.coverPath
                    /\ ep'.ok \in {Some("Added"), Some("Image removed")}
                          => rows'[id][1].image_paths = Some(ep'.imagePaths)]_vars

-----------------------------------------------------------------------------
\* C25: a step of the edit page that removes a file from the bucket leaves
\* no stored row naming that file, as its cover or among its images.
C25_RemovedFilesUnreferenced ==
    [][\A p \in bucket \ bucket' :
          \A id \in PostIds :
             rows'[id] # None => p \notin FilesOf(rows'[id][1])]_vars



-----------------------------------------------------------------------------
-----------------------------------------------------------------------------
\* the body getPost(id) returns from a table
BodyRead(table, id) == getPost(table, id, FALSE).data[1].body_md

\* every list loadPosts may return from a table gives the post id that body
ListedWith(table, id, body) ==
    \A list \in loadPosts(table) :
        \A k \in 1..Len(list) : list[k].id = id => list[k].body_md = body

\* C27: right after Write created a post, getPost and loadPosts return the
\* body Write sent as its body_md; right after a save of the edit page
\* succeeded, they return the body of the form; and no other step changes
\* the body they return for a stored post.
C27_LatestBodyIsRead ==
    [][\A id \in PostIds :
          LET created == rows[id] = None /\ rows'[id] # None
              saved == /\ ep.id = Some(id) /\ ep'.id = ep.id
                       /\ ep'.ok = Some("Saved")
                       /\ (rows' # rows \/ ep'.post # ep.post)
          IN  /\ created => /\ BodyRead(rows', id) = Some(wr.body)
                            /\ ListedWith(rows', id, Some(wr.body))
              /\ saved => /\ rows'[id] # None
                          /\ BodyRead(rows', id) = Some(ep.bodyMd)
                          /\ ListedWith(rows', id, Some(ep.bodyMd))
              /\ (rows[id] # None /\ rows'[id] # None /\ ~saved)
                    => BodyRead(rows', id) = BodyRead(rows, id)]_vars

\* a post created with one body was saved from the edit page with another:
\* the table holds the first in the column body and the second in body_md,
\* and the Post view, opened since, shows the second
C27_Witness ==
    /\ rows[1] # None
    /\ rows[1][1].body = Some(<<<<"a">>>>)
    /\ rows[1][1].body_md = Some(<<<<"b">>>>)
    /\ pvId = Some(1)
    /\ pvPost # None
    /\ pvPost[1].body_md = Some(<<<<"b">>>>)



-----------------------------------------------------------------------------
\* C28: RequireAuth shows only the placeholder until it was told of the
\* session, by the getSession result or by a notification; and it shows its
\* children only if the last notification it got, when it got any, reported
\* a session.
C28_ChildrenOnlyWhileSession ==
    /\ (ra.mounted /\ ~ra.informed) => RaScreen = "checking"
    /\ RaScreen = "children" => ra.lastNote # "out"



-----------------------------------------------------------------------------
\* C29: while nobody is signed in, no step of a publish attempt of Write
\* stores a file in the bucket or a row in the table.
C29_AnonymousPublishWritesNothing ==
    [][authUser = None => (bucket' = bucket /\ rows' = rows /\ nextId' = nextId)]_vars

-----------------------------------------------------------------------------
\* the count getViews() holds for id in a stored value, 0 with no entry
StoredViews(store, id) ==
    LET views == getViews(store)
    IN  IF views.type = "object" /\ Lookup(views, id) # None THEN Lookup(views, id)[1] ELSE 0

\* C30: a click on a post link of Home that takes the reader from Home to
\* the post, and that changed the stored counts at all, raised the count of
\* that post by exactly 1, the click handler and the mount effect of Post
\* taken together.
C30_OneClickOneView ==
    [][(home # None /\ home' = None /\ pvId' # None /\ viewStore' # viewStore)
           => StoredViews(viewStore', pvId'[1]) = StoredViews(viewStore, pvId'[1]) + 1]_vars

====
